---- MODULE Spec2Model ----
(***************************************************************************)
(* Model of the in-memory services of the movie review front end:          *)
(* UserService (users, currentUser), RatingService (ratings) and the       *)
(* client-side StatisticsService that aggregates ratings by age, gender,   *)
(* continent and country.                                                  *)
(*                                                                         *)
(* Encodings                                                               *)
(*   optional value   <<>> is undefined, <<v>> is the value v              *)
(*   string inspected by the code (continent)   sequence of characters     *)
(*   string only compared by the code           TLA+ string                *)
(*   number produced by a division              reduced fraction num/den   *)
(*   Date                                       integer clock reading      *)
(*   uuidv4()                                   integer not in use         *)
(***************************************************************************)
EXTENDS Integers, Sequences, FiniteSets, TLC

VARIABLES users, currentUser, ratings, now, ret, sRatings, sStats,
          cookie, inflight, currentUserApi, authStateListeners, notified,
          comments, commentForm, commentItem, statisticsPanel, ratingForm

\* state of the in-memory CommentService and of the mounted components:
\* the values of their state hooks and what their closures captured
uiVars == <<comments, commentForm, commentItem, statisticsPanel, ratingForm>>

\* state of the API-backed services: the auth_token cookie, the requests
\* handed to fetch and not yet answered, UserService.currentUser and
\* UserService.authStateListeners of the API-backed UserService, and the
\* listener calls made by the last step
apiVars == <<cookie, inflight, currentUserApi, authStateListeners, notified>>

\* state of the in-memory services and of the aggregation
memVars == <<users, currentUser, ratings, now, sRatings, sStats>>

vars == <<users, currentUser, ratings, now, ret, sRatings, sStats,
          cookie, inflight, currentUserApi, authStateListeners, notified,
          comments, commentForm, commentItem, statisticsPanel, ratingForm>>

(* ----------------------------- bounds --------------------------------- *)
MaxUsers == 2
MaxClock == 1
MaxRatings == 2
MaxList == 2

(* --------------------------- optional values --------------------------- *)
None == <<>>
Some(v) == <<v>>
Val(o) == o[1]

(* ------------------------------ numbers -------------------------------- *)
RECURSIVE Gcd(_, _)
Gcd(a, b) == IF b = 0 THEN a ELSE Gcd(b, a % b)

Zero == [num |-> 0, den |-> 1]

\* JavaScript a / b for integers a >= 0, b > 0, as an exact reduced fraction
Div(a, b) == LET g == Gcd(a, b) IN [num |-> a \div g, den |-> b \div g]

(* ------------------------------ strings -------------------------------- *)
UpperChars == <<"A","B","C","D","E","F","G","H","I","J","K","L","M",
                "N","O","P","Q","R","S","T","U","V","W","X","Y","Z">>
LowerChars == <<"a","b","c","d","e","f","g","h","i","j","k","l","m",
                "n","o","p","q","r","s","t","u","v","w","x","y","z">>

LowerMap == [c \in {UpperChars[i] : i \in 1..26} |->
               LowerChars[CHOOSE i \in 1..26 : UpperChars[i] = c]]

LowerChar(c) == IF c \in DOMAIN LowerMap THEN LowerMap[c] ELSE c

\* String.prototype.toLowerCase
ToLowerCase(s) == [i \in 1..Len(s) |-> LowerChar(s[i])]

\* String.prototype.includes
Includes(s, sub) ==
  \E i \in 0..(Len(s) - Len(sub)) : \A j \in 1..Len(sub) : s[i + j] = sub[j]

sAfrica == <<"A","f","r","i","c","a">>
sAsia == <<"A","s","i","a">>
sEurope == <<"E","u","r","o","p","e">>
sNorthAmerica == <<"N","o","r","t","h"," ","A","m","e","r","i","c","a">>
sSouthAmerica == <<"S","o","u","t","h"," ","A","m","e","r","i","c","a">>
sAustralia == <<"A","u","s","t","r","a","l","i","a">>

\* the lower-case literals of the continent chain
lAfrica == <<"a","f","r","i","c","a">>
lAsia == <<"a","s","i","a">>
lEurope == <<"e","u","r","o","p","e">>
lNorthAmerica == <<"n","o","r","t","h"," ","a","m","e","r","i","c","a">>
lSouthAmerica == <<"s","o","u","t","h"," ","a","m","e","r","i","c","a">>
lAustralia == <<"a","u","s","t","r","a","l","i","a">>
lAntarctica == <<"a","n","t","a","r","c","t","i","c","a">>

\* uuidv4(): an identifier different from every identifier in use
uuidv4(used) == CHOOSE n \in 1..(Cardinality(used) + 1) : n \notin used

(* ---------------------------- UserService ------------------------------ *)
continentMap ==
  [c \in {"USA", "Canada", "Mexico", "Brazil", "Argentina", "UK", "France",
          "Germany", "Italy", "Spain", "China", "Japan", "India", "Australia",
          "New Zealand", "Egypt", "South Africa", "Nigeria"} |->
     CASE c \in {"USA", "Canada", "Mexico"} -> sNorthAmerica
       [] c \in {"Brazil", "Argentina"} -> sSouthAmerica
       [] c \in {"UK", "France", "Germany", "Italy", "Spain"} -> sEurope
       [] c \in {"China", "Japan", "India"} -> sAsia
       [] c \in {"Australia", "New Zealand"} -> sAustralia
       [] OTHER -> sAfrica]

\* country is an optional string; '' and undefined are both falsy
getContinentFromCountry(country) ==
  IF country = None \/ country = Some("") THEN None
  ELSE IF Val(country) \in DOMAIN continentMap
       THEN Some(continentMap[Val(country)])
       ELSE None

\* const { password, ...safeUser } = user
SafeUser(u) == [f \in DOMAIN u \ {"password"} |-> u[f]]

\* { ...base, ...over }
Spread(base, over) ==
  [f \in DOMAIN base \cup DOMAIN over |->
     IF f \in DOMAIN over THEN over[f] ELSE base[f]]

\* variant: every lookup returns the first stored user
getUserByIdFirst(id) ==
  IF Len(users) > 0 THEN Some(SafeUser(users[1])) ELSE None

getUserById(id) ==
  IF \E i \in 1..Len(users) : users[i].id = id
  THEN Some(SafeUser(users[CHOOSE i \in 1..Len(users) :
                             /\ users[i].id = id
                             /\ \A j \in 1..(i - 1) : users[j].id /= id]))
  ELSE None

(* --------------------------- RatingService ----------------------------- *)
RECURSIVE Sum(_, _)
\* movieRatings.reduce((total, rating) => total + rating.score, 0)
Sum(rs, n) == IF n = 0 THEN 0 ELSE Sum(rs, n - 1) + rs[n].score

\* this.ratings.filter(rating => rating.movieId === movieId)
filterByMovie(rs, movieId) == SelectSeq(rs, LAMBDA r : r.movieId = movieId)

\* variant: the average is taken over the whole store, without the filter
getMovieRatingUnfiltered(movieId) ==
  LET totalRatings == Len(ratings)
  IN  IF totalRatings = 0
      THEN [movieId |-> movieId, averageScore |-> Zero, totalRatings |-> 0]
      ELSE [movieId |-> movieId,
            averageScore |-> Div(Sum(ratings, totalRatings), totalRatings),
            totalRatings |-> totalRatings]

getMovieRating(movieId) ==
  LET movieRatings == filterByMovie(ratings, movieId)
      totalRatings == Len(movieRatings)
  IN  IF totalRatings = 0
      THEN [movieId |-> movieId, averageScore |-> Zero, totalRatings |-> 0]
      ELSE [movieId |-> movieId,
            averageScore |-> Div(Sum(movieRatings, totalRatings), totalRatings),
            totalRatings |-> totalRatings]

\* the rating joined with the author's current profile; only called when
\* the author exists (otherwise the code throws 'Rating user not found')
addUserInfoToRating(rating) ==
  LET user == Val(getUserById(rating.userId))
  IN  Spread(rating, [user |-> [id |-> user.id, username |-> user.username,
                                age |-> user.age, gender |-> user.gender,
                                country |-> user.country,
                                continent |-> user.continent]])

\* position of x in a list kept newest first; equal dates keep their order
insertNewestFirst(sorted, x) ==
  LET k == Cardinality({i \in 1..Len(sorted) : sorted[i].createdAt >= x.createdAt})
  IN  SubSeq(sorted, 1, k) \o <<x>> \o SubSeq(sorted, k + 1, Len(sorted))

RECURSIVE sortNewestFirst(_, _)
\* .sort((a, b) => b.createdAt.getTime() - a.createdAt.getTime()), stable
sortNewestFirst(rs, n) ==
  IF n = 0 THEN <<>> ELSE insertNewestFirst(sortNewestFirst(rs, n - 1), rs[n])

\* variant: a rating whose author is not the logged-in user counts as orphaned
ratingUserMissingLoggedOut(movieId) ==
  \E i \in 1..Len(ratings) :
     /\ ratings[i].movieId = movieId
     /\ (currentUser = None \/ Val(currentUser).id /= ratings[i].userId)

ratingUserMissing(movieId) ==
  \E i \in 1..Len(ratings) :
     ratings[i].movieId = movieId /\ getUserById(ratings[i].userId) = None

getRatingsByMovieId(movieId) ==
  LET movieRatings == filterByMovie(ratings, movieId)
      withUser == [i \in 1..Len(movieRatings) |-> addUserInfoToRating(movieRatings[i])]
  IN  sortNewestFirst(withUser, Len(withUser))

\* index of the first rating of the movie by the user, 0 when there is none
findRating(movieId, userId) ==
  IF \E i \in 1..Len(ratings) : ratings[i].movieId = movieId /\ ratings[i].userId = userId
  THEN CHOOSE i \in 1..Len(ratings) :
         /\ ratings[i].movieId = movieId /\ ratings[i].userId = userId
         /\ \A j \in 1..(i - 1) : ~(ratings[j].movieId = movieId /\ ratings[j].userId = userId)
  ELSE 0

(* ------------------------- StatisticsService --------------------------- *)
AgeKeys == {"under18", "age18to24", "age25to34", "age35to44", "age45to54", "age55plus"}
GenderKeys == {"male", "female", "other", "notSpecified"}
ContinentKeys == {"africa", "asia", "europe", "northAmerica", "southAmerica",
                  "australia", "antarctica"}

\* variant: the first comparison is age <= 18
ageGroupInclusive18(age) ==
  IF age <= 18 THEN "under18"
  ELSE IF age <= 24 THEN "age18to24"
  ELSE IF age <= 34 THEN "age25to34"
  ELSE IF age <= 44 THEN "age35to44"
  ELSE IF age <= 54 THEN "age45to54"
  ELSE "age55plus"

\* the if / else-if chain choosing the age group of a defined age
ageGroup(age) ==
  IF age < 18 THEN "under18"
  ELSE IF age >= 18 /\ age <= 24 THEN "age18to24"
  ELSE IF age >= 25 /\ age <= 34 THEN "age25to34"
  ELSE IF age >= 35 /\ age <= 44 THEN "age35to44"
  ELSE IF age >= 45 /\ age <= 54 THEN "age45to54"
  ELSE "age55plus"

\* variant: no early return for an undefined age; every comparison with
\* undefined is false, so the chain ends in its else branch
ageStepNoUndefinedCheck(acc, rating) ==
  LET age == rating.user.age
      g == IF age = None THEN "age55plus" ELSE ageGroup(Val(age))
  IN  [total |-> [acc.total EXCEPT ![g] = @ + rating.score],
       count |-> [acc.count EXCEPT ![g] = @ + 1]]

\* body of the forEach of calculateAgeStatistics on one rating
ageStep(acc, rating) ==
  LET age == rating.user.age
  IN  IF age = None THEN acc
      ELSE LET g == ageGroup(Val(age))
           IN  [total |-> [acc.total EXCEPT ![g] = @ + rating.score],
                count |-> [acc.count EXCEPT ![g] = @ + 1]]

RECURSIVE ageFold(_, _)
ageFold(rs, n) ==
  IF n = 0 THEN [total |-> [k \in AgeKeys |-> 0], count |-> [k \in AgeKeys |-> 0]]
  ELSE ageStep(ageFold(rs, n - 1), rs[n])

calculateAgeStatistics(rs) ==
  LET acc == ageFold(rs, Len(rs))
  IN  [k \in AgeKeys |->
         IF acc.count[k] > 0 THEN Div(acc.total[k], acc.count[k]) ELSE Zero]

\* variant: only a present value outside the three names is unspecified, an
\* absent one is filed under other
genderGroupAbsentOther(gender) ==
  IF gender = Some("male") THEN "male"
  ELSE IF gender = Some("female") THEN "female"
  ELSE IF gender = Some("other") \/ gender = None THEN "other"
  ELSE "notSpecified"

\* the chain choosing the gender group; gender is an optional string
genderGroup(gender) ==
  IF gender = Some("male") THEN "male"
  ELSE IF gender = Some("female") THEN "female"
  ELSE IF gender = Some("other") THEN "other"
  ELSE "notSpecified"

genderStep(acc, rating) ==
  LET g == genderGroup(rating.user.gender)
  IN  [total |-> [acc.total EXCEPT ![g] = @ + rating.score],
       count |-> [acc.count EXCEPT ![g] = @ + 1]]

RECURSIVE genderFold(_, _)
genderFold(rs, n) ==
  IF n = 0 THEN [total |-> [k \in GenderKeys |-> 0], count |-> [k \in GenderKeys |-> 0]]
  ELSE genderStep(genderFold(rs, n - 1), rs[n])

\* variant: only the groups that received a rating are reported
calculateGenderStatisticsSparse(rs) ==
  LET acc == genderFold(rs, Len(rs))
  IN  [k \in {g \in GenderKeys : acc.count[g] > 0} |->
         Div(acc.total[k], acc.count[k])]

calculateGenderStatistics(rs) ==
  LET acc == genderFold(rs, Len(rs))
  IN  [k \in GenderKeys |->
         IF acc.count[k] > 0 THEN Div(acc.total[k], acc.count[k]) ELSE Zero]

\* variant: the comparisons are made on the string as written
continentKeyCaseSensitive(continent) ==
  IF Includes(continent, lAfrica) THEN Some("africa")
  ELSE IF Includes(continent, lAsia) THEN Some("asia")
  ELSE IF Includes(continent, lEurope) THEN Some("europe")
  ELSE IF Includes(continent, lNorthAmerica) THEN Some("northAmerica")
  ELSE IF Includes(continent, lSouthAmerica) THEN Some("southAmerica")
  ELSE IF Includes(continent, lAustralia) THEN Some("australia")
  ELSE IF Includes(continent, lAntarctica) THEN Some("antarctica")
  ELSE None

\* the chain mapping a non-empty continent string to a key, None when the
\* string matches no category
continentKey(continent) ==
  LET lc == ToLowerCase(continent)
  IN  IF Includes(lc, lAfrica) THEN Some("africa")
      ELSE IF Includes(lc, lAsia) THEN Some("asia")
      ELSE IF Includes(lc, lEurope) THEN Some("europe")
      ELSE IF Includes(lc, lNorthAmerica) THEN Some("northAmerica")
      ELSE IF Includes(lc, lSouthAmerica) THEN Some("southAmerica")
      ELSE IF Includes(lc, lAustralia) THEN Some("australia")
      ELSE IF Includes(lc, lAntarctica) THEN Some("antarctica")
      ELSE None

\* !continent : undefined or the empty string
continentStep(acc, rating) ==
  LET continent == rating.user.continent
  IN  IF continent = None \/ continent = Some(<<>>) THEN acc
      ELSE LET key == continentKey(Val(continent))
           IN  IF key = None THEN acc
               ELSE [total |-> [acc.total EXCEPT ![Val(key)] = @ + rating.score],
                     count |-> [acc.count EXCEPT ![Val(key)] = @ + 1]]

RECURSIVE continentFold(_, _)
continentFold(rs, n) ==
  IF n = 0 THEN [total |-> [k \in ContinentKeys |-> 0],
                 count |-> [k \in ContinentKeys |-> 0]]
  ELSE continentStep(continentFold(rs, n - 1), rs[n])

\* variant: the number of ratings of each continent instead of their mean
calculateContinentStatisticsCount(rs) ==
  LET acc == continentFold(rs, Len(rs))
  IN  [k \in ContinentKeys |-> [num |-> acc.count[k], den |-> 1]]

calculateContinentStatistics(rs) ==
  LET acc == continentFold(rs, Len(rs))
  IN  [k \in ContinentKeys |->
         IF acc.count[k] > 0 THEN Div(acc.total[k], acc.count[k]) ELSE Zero]

\* variant: the key is the country in upper case
countryStepUpperCase(acc, rating) ==
  LET country == rating.user.country
  IN  IF country = None \/ country = Some("") THEN acc
      ELSE LET c == IF Val(country) = "usa" THEN "USA" ELSE Val(country)
               fresh == c \notin DOMAIN acc.total \/ acc.total[c] = 0
               t0 == IF fresh THEN 0 ELSE acc.total[c]
               n0 == IF fresh THEN 0 ELSE acc.count[c]
           IN  [total |-> [x \in DOMAIN acc.total \cup {c} |->
                             IF x = c THEN t0 + rating.score ELSE acc.total[x]],
                count |-> [x \in DOMAIN acc.count \cup {c} |->
                             IF x = c THEN n0 + 1 ELSE acc.count[x]]]

\* total and count are keyed by the country string itself; an entry is
\* (re)initialised whenever !totalScoreByCountry[country] holds, that is when
\* the key is missing or its total is 0
countryStep(acc, rating) ==
  LET country == rating.user.country
  IN  IF country = None \/ country = Some("") THEN acc
      ELSE LET c == Val(country)
               fresh == c \notin DOMAIN acc.total \/ acc.total[c] = 0
               t0 == IF fresh THEN 0 ELSE acc.total[c]
               n0 == IF fresh THEN 0 ELSE acc.count[c]
           IN  [total |-> [x \in DOMAIN acc.total \cup {c} |->
                             IF x = c THEN t0 + rating.score ELSE acc.total[x]],
                count |-> [x \in DOMAIN acc.count \cup {c} |->
                             IF x = c THEN n0 + 1 ELSE acc.count[x]]]

RECURSIVE countryFold(_, _)
countryFold(rs, n) ==
  IF n = 0 THEN [total |-> [x \in {} |-> 0], count |-> [x \in {} |-> 0]]
  ELSE countryStep(countryFold(rs, n - 1), rs[n])

calculateCountryStatistics(rs) ==
  LET acc == countryFold(rs, Len(rs))
  IN  [c \in DOMAIN acc.total |->
         IF acc.count[c] > 0 THEN Div(acc.total[c], acc.count[c]) ELSE Zero]

\* the object literal returned by getMovieStatistics
movieStatistics(movieId, rs, mr) ==
  [movieId |-> movieId,
   averageRating |-> mr.averageScore,
   totalRatings |-> mr.totalRatings,
   ageStatistics |-> calculateAgeStatistics(rs),
   genderStatistics |-> calculateGenderStatistics(rs),
   continentStatistics |-> calculateContinentStatistics(rs),
   countryStatistics |-> calculateCountryStatistics(rs)]

(* ------------------------------ inputs --------------------------------- *)
Movies == {"m1", "m2"}
Scores == {4, 8}
Passwords == {"pw", "bad"}
Emails == {"ann@x", "bob@x"}

\* registration forms: two distinct people and one form that collides with
\* the first by e-mail and with the second by username
RegisterDtos ==
  {[email |-> "ann@x", username |-> "ann", password |-> "pw",
    age |-> Some(20), gender |-> Some("male"), country |-> Some("France")],
   [email |-> "bob@x", username |-> "bob", password |-> "pw",
    age |-> None, gender |-> Some("female"), country |-> Some("usa")],
   [email |-> "ann@x", username |-> "bob", password |-> "pw",
    age |-> Some(30), gender |-> None, country |-> None]}

UpdateDtos == {[age |-> Some(30)], [country |-> Some("Japan")], [username |-> "bob"]}

Result(op, err, val) == [op |-> op, err |-> err, val |-> val]

(* ----------------------- components before use ------------------------ *)
\* useState('') / useState(false) of CommentForm, with the current user
\* read by the render
CommentFormMounted(user) ==
  [text |-> <<>>, error |-> "", isSubmitting |-> FALSE, currentUser |-> user]

\* useState of CommentItem for a comment, with the current user read by the
\* render
CommentItemMounted(comment, user) ==
  [comment |-> comment, currentUser |-> user, isEditing |-> FALSE,
   editText |-> comment.text, isDeleting |-> FALSE]

\* useState of StatisticsPanel; requests holds the getMovieStatistics calls
\* that have not settled
StatisticsPanelMounted(movieId, requests) ==
  [movieId |-> movieId, statistics |-> None, loading |-> TRUE, requests |-> requests,
   fetches |-> Cardinality(requests)]

\* useState of RatingForm; calls holds the awaited service calls and timers
\* the setTimeout callbacks not yet run
RatingFormMounted ==
  [userRating |-> None, isSubmitting |-> FALSE, message |-> "", messageType |-> "",
   calls |-> {}, timers |-> {}, submissions |-> 0]

\* the components as they are when the services alone are exercised
UiInit ==
  /\ comments = <<>>
  /\ commentForm = CommentFormMounted(None)
  /\ commentItem = CommentItemMounted([id |-> "c1", user_id |-> "u1", text |-> <<"h", "i">>],
                                      None)
  /\ statisticsPanel = StatisticsPanelMounted("m1", {[id |-> 1, movieId |-> "m1"]})
  /\ ratingForm = RatingFormMounted

(* ------------------------------ actions -------------------------------- *)
Init ==
  /\ users = <<>>
  /\ currentUser = None
  /\ ratings = <<>>
  /\ now = 0
  /\ ret = Result("init", "", None)
  /\ sRatings = <<>>
  /\ sStats = None
  /\ cookie = None
  /\ inflight = {}
  /\ currentUserApi = None
  /\ authStateListeners = <<>>
  /\ notified = <<>>
  /\ UiInit

\* time passes between two calls
Tick ==
  /\ now < MaxClock
  /\ now' = now + 1
  /\ UNCHANGED <<users, currentUser, ratings, ret, sRatings, sStats>>
  /\ UNCHANGED apiVars
  /\ UNCHANGED uiVars

Register(userData) ==
  /\ IF \E i \in 1..Len(users) : users[i].email = userData.email
     THEN /\ ret' = Result("register", "Email already in use", None)
          /\ UNCHANGED users
     ELSE IF \E i \in 1..Len(users) : users[i].username = userData.username
     THEN /\ ret' = Result("register", "Username already in use", None)
          /\ UNCHANGED users
     ELSE /\ Len(users) < MaxUsers
          /\ LET newUser == Spread(Spread([id |-> uuidv4({users[i].id : i \in 1..Len(users)})], userData),
                                   [isAdmin |-> FALSE,
                                    continent |-> getContinentFromCountry(userData.country),
                                    createdAt |-> now,
                                    updatedAt |-> now])
             IN  /\ users' = Append(users, newUser)
                 /\ ret' = Result("register", "", SafeUser(newUser))
  /\ UNCHANGED <<currentUser, ratings, now, sRatings, sStats>>
  /\ UNCHANGED apiVars
  /\ UNCHANGED uiVars

Login(credentials) ==
  /\ IF \E i \in 1..Len(users) : /\ users[i].email = credentials.email
                                 /\ users[i].password = credentials.password
     THEN LET i == CHOOSE i \in 1..Len(users) :
                     /\ users[i].email = credentials.email
                     /\ users[i].password = credentials.password
                     /\ \A j \in 1..(i - 1) :
                          ~(/\ users[j].email = credentials.email
                            /\ users[j].password = credentials.password)
          IN  /\ currentUser' = Some(SafeUser(users[i]))
              /\ ret' = Result("login", "", SafeUser(users[i]))
     ELSE /\ ret' = Result("login", "Invalid email or password", None)
          /\ UNCHANGED currentUser
  /\ UNCHANGED <<users, ratings, now, sRatings, sStats>>
  /\ UNCHANGED apiVars
  /\ UNCHANGED uiVars

Logout ==
  /\ currentUser' = None
  /\ ret' = Result("logout", "", None)
  /\ UNCHANGED <<users, ratings, now, sRatings, sStats>>
  /\ UNCHANGED apiVars
  /\ UNCHANGED uiVars

UpdateUser(id, userData) ==
  /\ IF \A i \in 1..Len(users) : users[i].id /= id
     THEN /\ ret' = Result("updateUser", "", None)
          /\ UNCHANGED <<users, currentUser>>
     ELSE LET userIndex == CHOOSE i \in 1..Len(users) :
                             /\ users[i].id = id
                             /\ \A j \in 1..(i - 1) : users[j].id /= id
              continent ==
                IF "country" \in DOMAIN userData
                   /\ userData.country /= None /\ userData.country /= Some("")
                THEN getContinentFromCountry(userData.country)
                ELSE users[userIndex].continent
              updatedUser == Spread(Spread(users[userIndex], userData),
                                    [continent |-> continent, updatedAt |-> now])
          IN  /\ users' = [users EXCEPT ![userIndex] = updatedUser]
              /\ currentUser' = IF currentUser /= None /\ Val(currentUser).id = id
                                THEN Some(SafeUser(updatedUser))
                                ELSE currentUser
              /\ ret' = Result("updateUser", "", Some(SafeUser(updatedUser)))
  /\ UNCHANGED <<ratings, now, sRatings, sStats>>
  /\ UNCHANGED apiVars
  /\ UNCHANGED uiVars

\* variant: every call stores a new rating
RateMovieAlwaysCreates(ratingData) ==
  /\ IF currentUser = None
     THEN /\ ret' = Result("rateMovie", "User must be logged in to rate a movie", None)
          /\ UNCHANGED ratings
     ELSE /\ Len(ratings) < MaxRatings
          /\ LET newRating ==
                   Spread(Spread([id |-> uuidv4({ratings[j].id : j \in 1..Len(ratings)}),
                                  userId |-> Val(currentUser).id],
                                 ratingData),
                          [createdAt |-> now, updatedAt |-> now])
             IN  /\ ratings' = Append(ratings, newRating)
                 /\ ret' = Result("rateMovie", "", newRating)
  /\ UNCHANGED <<users, currentUser, now, sRatings, sStats>>
  /\ UNCHANGED apiVars
  /\ UNCHANGED uiVars

\* variant: a resubmission overwrites the stored rating with a new record
RateMovieOverwrites(ratingData) ==
  /\ IF currentUser = None
     THEN /\ ret' = Result("rateMovie", "User must be logged in to rate a movie", None)
          /\ UNCHANGED ratings
     ELSE LET i == findRating(ratingData.movieId, Val(currentUser).id)
              newRating ==
                Spread(Spread([id |-> IF i /= 0 THEN ratings[i].id
                                      ELSE uuidv4({ratings[j].id : j \in 1..Len(ratings)}),
                               userId |-> Val(currentUser).id],
                              ratingData),
                       [createdAt |-> now, updatedAt |-> now])
          IN  /\ i = 0 => Len(ratings) < MaxRatings
              /\ ratings' = IF i /= 0 THEN [ratings EXCEPT ![i] = newRating]
                            ELSE Append(ratings, newRating)
              /\ ret' = Result("rateMovie", "", newRating)
  /\ UNCHANGED <<users, currentUser, now, sRatings, sStats>>
  /\ UNCHANGED apiVars
  /\ UNCHANGED uiVars

RateMovie(ratingData) ==
  /\ IF currentUser = None
     THEN /\ ret' = Result("rateMovie", "User must be logged in to rate a movie", None)
          /\ UNCHANGED ratings
     ELSE LET i == findRating(ratingData.movieId, Val(currentUser).id)
          IN  IF i /= 0
              THEN /\ ratings' = [ratings EXCEPT ![i].score = ratingData.score,
                                                 ![i].updatedAt = now]
                   /\ ret' = Result("rateMovie", "", ratings'[i])
              ELSE /\ Len(ratings) < MaxRatings
                   /\ LET newRating ==
                            Spread(Spread([id |-> uuidv4({ratings[j].id : j \in 1..Len(ratings)}),
                                           userId |-> Val(currentUser).id],
                                          ratingData),
                                   [createdAt |-> now, updatedAt |-> now])
                      IN  /\ ratings' = Append(ratings, newRating)
                          /\ ret' = Result("rateMovie", "", newRating)
  /\ UNCHANGED <<users, currentUser, now, sRatings, sStats>>
  /\ UNCHANGED apiVars
  /\ UNCHANGED uiVars

\* variant: with nobody logged in the ratings of the movie are removed
DeleteRatingNoLoginCheck(movieId) ==
  /\ ratings' = SelectSeq(ratings, LAMBDA r :
                  ~(r.movieId = movieId
                    /\ (currentUser = None \/ r.userId = Val(currentUser).id)))
  /\ ret' = Result("deleteRating", "", Len(ratings') /= Len(ratings))
  /\ UNCHANGED <<users, currentUser, now, sRatings, sStats>>
  /\ UNCHANGED apiVars
  /\ UNCHANGED uiVars

DeleteRating(movieId) ==
  /\ IF currentUser = None
     THEN /\ ret' = Result("deleteRating", "User must be logged in to delete a rating", None)
          /\ UNCHANGED ratings
     ELSE /\ ratings' = SelectSeq(ratings, LAMBDA r :
                          ~(r.movieId = movieId /\ r.userId = Val(currentUser).id))
          /\ ret' = Result("deleteRating", "", Len(ratings') /= Len(ratings))
  /\ UNCHANGED <<users, currentUser, now, sRatings, sStats>>
  /\ UNCHANGED apiVars
  /\ UNCHANGED uiVars

\* variant: getRatingsByMovieId sorts the store itself instead of a copy
GetMovieStatisticsSortsStore(movieId) ==
  /\ IF ratingUserMissing(movieId)
     THEN ret' = Result("getMovieStatistics", "Rating user not found", None)
     ELSE ret' = Result("getMovieStatistics", "",
                        movieStatistics(movieId, getRatingsByMovieId(movieId),
                                        getMovieRating(movieId)))
  /\ ratings' = sortNewestFirst(ratings, Len(ratings))
  /\ UNCHANGED <<users, currentUser, now, sRatings, sStats>>
  /\ UNCHANGED apiVars
  /\ UNCHANGED uiVars

GetMovieStatistics(movieId) ==
  /\ IF ratingUserMissing(movieId)
     THEN ret' = Result("getMovieStatistics", "Rating user not found", None)
     ELSE ret' = Result("getMovieStatistics", "",
                        movieStatistics(movieId, getRatingsByMovieId(movieId),
                                        getMovieRating(movieId)))
  /\ UNCHANGED <<users, currentUser, ratings, now, sRatings, sStats>>
  /\ UNCHANGED apiVars
  /\ UNCHANGED uiVars

Next ==
  \/ Tick
  \/ \E d \in RegisterDtos : Register(d)
  \/ \E e \in Emails, p \in Passwords : Login([email |-> e, password |-> p])
  \/ Logout
  \/ \E m \in Movies, s \in Scores : RateMovie([movieId |-> m, score |-> s])
  \/ \E m \in Movies : DeleteRating(m)
  \/ \E m \in Movies : GetMovieStatistics(m)

Spec == Init /\ [][Next]_vars

(* ------------- the in-memory services with profile updates ------------- *)
\* ids passed to updateUser: those uuidv4 can have produced and one more
UserIds == 1..(MaxUsers + 1)

\* the one score submitted while profiles change
ProfileScores == {s \in Scores : \A t \in Scores : t <= s}

\* profile changes that touch a demographic attribute
ProfileDtos == {d \in UpdateDtos : "age" \in DOMAIN d \/ "country" \in DOMAIN d}

\* register, login, logout, updateUser, rateMovie, deleteRating and
\* getMovieStatistics called in any order, at one clock reading
NextProfile ==
  \/ \E d \in RegisterDtos : Register(d)
  \/ \E e \in Emails, p \in Passwords : Login([email |-> e, password |-> p])
  \/ Logout
  \/ \E id \in UserIds, d \in ProfileDtos : UpdateUser(id, d)
  \/ \E m \in Movies, s \in ProfileScores : RateMovie([movieId |-> m, score |-> s])
  \/ \E m \in Movies : DeleteRating(m)
  \/ \E m \in Movies : GetMovieStatistics(m)

SpecProfile == Init /\ [][NextProfile]_vars

(* ---------------- the in-memory UserService on its own ----------------- *)
\* register, login, logout and updateUser called in any order
NextAccounts ==
  \/ Tick
  \/ \E d \in RegisterDtos : Register(d)
  \/ \E e \in Emails, p \in Passwords : Login([email |-> e, password |-> p])
  \/ Logout
  \/ \E id \in UserIds, d \in UpdateDtos : UpdateUser(id, d)

SpecAccounts == Init /\ [][NextAccounts]_vars

(* ------------------- CommentService and CommentForm -------------------- *)
MaxComments == 2

RECURSIVE trimStart(_)
\* the string without its leading blanks
trimStart(s) == IF s /= <<>> /\ Head(s) = " " THEN trimStart(Tail(s)) ELSE s

RECURSIVE trimEnd(_)
\* the string without its trailing blanks
trimEnd(s) ==
  IF s /= <<>> /\ s[Len(s)] = " " THEN trimEnd(SubSeq(s, 1, Len(s) - 1)) ELSE s

\* String.prototype.trim
trim(s) == trimEnd(trimStart(s))

\* what a method of CommentService leaves behind: the comment list, and the
\* message of the error it threw ("" when it returned) or its return value
Outcome(list, err, val) == [comments |-> list, err |-> err, val |-> val]

\* addUserInfoToComment: the comment with its author's id and username, or
\* the error thrown when the author is not a stored user
addUserInfoToComment(comment) ==
  LET user == getUserById(comment.userId)
  IN  IF user = None
      THEN [err |-> "Comment user not found", val |-> None]
      ELSE [err |-> "",
            val |-> Some(Spread(comment, [user |-> [id |-> Val(user).id,
                                                    username |-> Val(user).username]]))]

createComment(commentData) ==
  IF currentUser = None
  THEN Outcome(comments, "User must be logged in to comment", None)
  ELSE LET newComment ==
             Spread(Spread([id |-> uuidv4({comments[i].id : i \in 1..Len(comments)}),
                            userId |-> Val(currentUser).id],
                           commentData),
                    [createdAt |-> now, updatedAt |-> now])
           withUser == addUserInfoToComment(newComment)
       IN  Outcome(Append(comments, newComment), withUser.err, withUser.val)

\* variant: any logged-in user may update any comment
updateCommentOfAnyone(id, commentData) ==
  IF currentUser = None
  THEN Outcome(comments, "User must be logged in to update a comment", None)
  ELSE IF \A i \in 1..Len(comments) : comments[i].id /= id
  THEN Outcome(comments, "", None)
  ELSE LET commentIndex == CHOOSE i \in 1..Len(comments) :
                             /\ comments[i].id = id
                             /\ \A j \in 1..(i - 1) : comments[j].id /= id
           updatedComment == Spread(Spread(comments[commentIndex], commentData),
                                    [updatedAt |-> now])
           withUser == addUserInfoToComment(updatedComment)
       IN  Outcome([comments EXCEPT ![commentIndex] = updatedComment],
                   withUser.err, withUser.val)

updateComment(id, commentData) ==
  IF currentUser = None
  THEN Outcome(comments, "User must be logged in to update a comment", None)
  ELSE IF \A i \in 1..Len(comments) : comments[i].id /= id
  THEN Outcome(comments, "", None)
  ELSE LET commentIndex == CHOOSE i \in 1..Len(comments) :
                             /\ comments[i].id = id
                             /\ \A j \in 1..(i - 1) : comments[j].id /= id
           updatedComment == Spread(Spread(comments[commentIndex], commentData),
                                    [updatedAt |-> now])
           withUser == addUserInfoToComment(updatedComment)
       IN  IF /\ comments[commentIndex].userId /= Val(currentUser).id
              /\ ~Val(currentUser).isAdmin
           THEN Outcome(comments, "You can only update your own comments", None)
           ELSE Outcome([comments EXCEPT ![commentIndex] = updatedComment],
                        withUser.err, withUser.val)

deleteComment(id) ==
  IF currentUser = None
  THEN Outcome(comments, "User must be logged in to delete a comment", None)
  ELSE IF \A i \in 1..Len(comments) : comments[i].id /= id
  THEN Outcome(comments, "", Some(FALSE))
  ELSE LET comment == comments[CHOOSE i \in 1..Len(comments) :
                                 /\ comments[i].id = id
                                 /\ \A j \in 1..(i - 1) : comments[j].id /= id]
           kept == SelectSeq(comments, LAMBDA c : c.id /= id)
       IN  IF comment.userId /= Val(currentUser).id /\ ~Val(currentUser).isAdmin
           THEN Outcome(comments, "You can only delete your own comments", None)
           ELSE Outcome(kept, "", Some(Len(kept) /= Len(comments)))

\* a call leaves the comment list of its outcome and returns or throws
CommentServiceCall(op, outcome) ==
  /\ Len(outcome.comments) <= MaxComments
  /\ comments' = outcome.comments
  /\ ret' = Result(op, outcome.err, outcome.val)
  /\ UNCHANGED <<commentForm, commentItem, statisticsPanel, ratingForm>>
  /\ UNCHANGED memVars
  /\ UNCHANGED apiVars

CreateComment(commentData) == CommentServiceCall("createComment", createComment(commentData))

UpdateComment(id, commentData) ==
  CommentServiceCall("updateComment", updateComment(id, commentData))

DeleteComment(id) == CommentServiceCall("deleteComment", deleteComment(id))

\* what CommentForm renders: the log-in prompt when the render found nobody
\* logged in, otherwise the form with the error box (when error is not empty)
\* and the textarea
CommentFormShows(form) ==
  IF form.currentUser = None
  THEN [prompt |-> TRUE, error |-> "", text |-> <<>>]
  ELSE [prompt |-> FALSE, error |-> form.error, text |-> form.text]

\* the component after the state setters of a handler ran: React renders it
\* again when a state value changed, and the render reads the current user
CommentFormAfter(state) ==
  IF state = commentForm
  THEN commentForm
  ELSE [state EXCEPT !.currentUser = currentUser]

\* the parent renders the component again
CommentFormRender ==
  /\ commentForm' = [commentForm EXCEPT !.currentUser = currentUser]
  /\ ret' = Result("render", "", None)
  /\ UNCHANGED <<comments, commentItem, statisticsPanel, ratingForm>>
  /\ UNCHANGED memVars
  /\ UNCHANGED apiVars

\* onChange of the textarea, which exists when the form is rendered
CommentFormChange(text) ==
  /\ ~CommentFormShows(commentForm).prompt
  /\ commentForm' = CommentFormAfter([commentForm EXCEPT !.text = text])
  /\ ret' = Result("onChange", "", None)
  /\ UNCHANGED <<comments, commentItem, statisticsPanel, ratingForm>>
  /\ UNCHANGED memVars
  /\ UNCHANGED apiVars

\* the form is submitted; ret records how often onCommentAdded was called
HandleSubmit(movieId) ==
  /\ ~CommentFormShows(commentForm).prompt
  /\ IF trim(commentForm.text) = <<>>
     THEN /\ commentForm' = CommentFormAfter([commentForm EXCEPT !.error = "Comment cannot be empty"])
          /\ ret' = Spread(Result("handleSubmit", "", None), [onCommentAdded |-> 0])
          /\ UNCHANGED comments
     ELSE IF commentForm.currentUser = None
     THEN /\ commentForm' = CommentFormAfter([commentForm EXCEPT !.error = "You must be logged in to comment"])
          /\ ret' = Spread(Result("handleSubmit", "", None), [onCommentAdded |-> 0])
          /\ UNCHANGED comments
     ELSE LET outcome == createComment([movieId |-> movieId, text |-> trim(commentForm.text)])
          IN  /\ Len(outcome.comments) <= MaxComments
              /\ comments' = outcome.comments
              /\ IF outcome.err = ""
                 THEN /\ commentForm' =
                           CommentFormAfter([commentForm EXCEPT !.text = <<>>, !.error = "",
                                                                 !.isSubmitting = FALSE])
                      /\ ret' = Spread(Result("handleSubmit", "", None), [onCommentAdded |-> 1])
                 ELSE /\ commentForm' =
                           CommentFormAfter([commentForm EXCEPT !.error = outcome.err,
                                                                 !.isSubmitting = FALSE])
                      /\ ret' = Spread(Result("handleSubmit", "", None), [onCommentAdded |-> 0])
  /\ UNCHANGED <<commentItem, statisticsPanel, ratingForm>>
  /\ UNCHANGED memVars
  /\ UNCHANGED apiVars

CommentMovies == {"m1"}
CommentIds == 1..(MaxComments + 1)
FormTexts == {<<>>, <<" ">>, <<" ", "h", "i", " ">>}
CommentTexts == {<<"h", "i">>}
CommentUpdates == {[text |-> <<"n", "e", "w">>]}

\* the in-memory UserService, CommentService and a CommentForm
NextComments ==
  \/ \E d \in RegisterDtos : Register(d)
  \/ \E e \in Emails, p \in Passwords : Login([email |-> e, password |-> p])
  \/ Logout
  \/ \E m \in CommentMovies, t \in CommentTexts : CreateComment([movieId |-> m, text |-> t])
  \/ \E id \in CommentIds, d \in CommentUpdates : UpdateComment(id, d)
  \/ \E id \in CommentIds : DeleteComment(id)
  \/ CommentFormRender
  \/ \E t \in FormTexts : CommentFormChange(t)
  \/ \E m \in CommentMovies : HandleSubmit(m)

SpecComments == Init /\ [][NextComments]_vars

(* ----------------------------- CommentItem ----------------------------- *)
\* variant: every logged-in user may modify
canModifyWhenLoggedIn(user, comment) == user /= None

\* currentUser && (currentUser.id === comment.user_id || currentUser.isAdmin)
canModify(user, comment) ==
  /\ user /= None
  /\ \/ Val(user).id = comment.user_id
     \/ Val(user).isAdmin

\* what CommentItem renders: the confirmation dialog while deleting; otherwise
\* the comment, with the Edit and Delete controls when canModify && !isEditing
\* and the edit form while editing
CommentItemShows(item) ==
  [confirmation |-> item.isDeleting,
   controls |-> /\ ~item.isDeleting
                /\ canModify(item.currentUser, item.comment)
                /\ ~item.isEditing,
   editForm |-> ~item.isDeleting /\ item.isEditing]

\* a step of the component: its new state, and what it called
CommentItemStep(op, item, onUpdate) ==
  /\ commentItem' = item
  /\ ret' = Spread(Result(op, "", None), [onUpdate |-> onUpdate])
  /\ UNCHANGED <<comments, commentForm, statisticsPanel, ratingForm>>
  /\ UNCHANGED memVars
  /\ UNCHANGED apiVars

\* the list mounts the component for a comment; user is what getCurrentUser()
\* returns to the render
CommentItemMount(comment, user) ==
  CommentItemStep("mount", CommentItemMounted(comment, user), 0)

\* the component renders again and reads the current user
CommentItemRender(user) ==
  CommentItemStep("render", [commentItem EXCEPT !.currentUser = user], 0)

HandleEdit ==
  /\ CommentItemShows(commentItem).controls
  /\ CommentItemStep("handleEdit",
                     [commentItem EXCEPT !.isEditing = TRUE,
                                         !.editText = commentItem.comment.text], 0)

HandleCancelEdit ==
  /\ CommentItemShows(commentItem).editForm
  /\ CommentItemStep("handleCancelEdit", [commentItem EXCEPT !.isEditing = FALSE], 0)

\* onChange of the textarea of the edit form
CommentItemChange(text) ==
  /\ CommentItemShows(commentItem).editForm
  /\ CommentItemStep("onChange", [commentItem EXCEPT !.editText = text], 0)

\* handleSaveEdit to its end; resolved is whether updateComment resolved
HandleSaveEdit(resolved) ==
  /\ CommentItemShows(commentItem).editForm
  /\ IF trim(commentItem.editText) = <<>>
     THEN CommentItemStep("handleSaveEdit", commentItem, 0)
     ELSE IF resolved
     THEN CommentItemStep("handleSaveEdit", [commentItem EXCEPT !.isEditing = FALSE], 1)
     ELSE CommentItemStep("handleSaveEdit", commentItem, 0)

HandleDelete ==
  /\ CommentItemShows(commentItem).controls
  /\ CommentItemStep("handleDelete", [commentItem EXCEPT !.isDeleting = TRUE], 0)

\* handleConfirmDelete to its end; resolved is whether deleteComment resolved
HandleConfirmDelete(resolved) ==
  /\ CommentItemShows(commentItem).confirmation
  /\ IF resolved
     THEN CommentItemStep("handleConfirmDelete", commentItem, 1)
     ELSE CommentItemStep("handleConfirmDelete",
                          [commentItem EXCEPT !.isDeleting = FALSE], 0)

HandleCancelDelete ==
  /\ CommentItemShows(commentItem).confirmation
  /\ CommentItemStep("handleCancelDelete", [commentItem EXCEPT !.isDeleting = FALSE], 0)

ItemComments ==
  {[id |-> "c1", user_id |-> "u1", text |-> <<"h", "i">>],
   [id |-> "c2", user_id |-> "u2", text |-> <<"y", "o">>]}
\* nobody, the two authors, and an admin who wrote neither comment
Viewers ==
  {None, Some([id |-> "u1", isAdmin |-> FALSE]), Some([id |-> "u2", isAdmin |-> FALSE]),
   Some([id |-> "admin1", isAdmin |-> TRUE])}
EditTexts == {<<" ">>, <<"n", "e", "w">>}

NextCommentItem ==
  \/ \E c \in ItemComments, u \in Viewers : CommentItemMount(c, u)
  \/ \E u \in Viewers : CommentItemRender(u)
  \/ HandleEdit
  \/ HandleCancelEdit
  \/ \E t \in EditTexts : CommentItemChange(t)
  \/ \E resolved \in BOOLEAN : HandleSaveEdit(resolved)
  \/ HandleDelete
  \/ \E resolved \in BOOLEAN : HandleConfirmDelete(resolved)
  \/ HandleCancelDelete

SpecCommentItem == Init /\ [][NextCommentItem]_vars

(* --------------------------- StatisticsPanel --------------------------- *)
MaxFetches == 3

PanelMovies == {"m1", "m2", "m3"}
PanelTotals == {0, 2}

\* what StatisticsPanel renders
StatisticsPanelShows(panel) ==
  IF panel.loading THEN [text |-> "Loading statistics...", statistics |-> None]
  ELSE IF panel.statistics = None
  THEN [text |-> "No statistics available for this movie.", statistics |-> None]
  ELSE [text |-> "", statistics |-> panel.statistics]

\* a step of the panel
StatisticsPanelStep(op, panel) ==
  /\ statisticsPanel' = panel
  /\ ret' = Result(op, "", None)
  /\ UNCHANGED <<comments, commentForm, commentItem, ratingForm>>
  /\ UNCHANGED memVars
  /\ UNCHANGED apiVars

\* the movieId prop changes: the effect runs again and calls
\* getMovieStatistics(movieId); statistics and loading stay as they are
MovieIdChanges(movieId) ==
  /\ movieId /= statisticsPanel.movieId
  /\ statisticsPanel.fetches < MaxFetches
  /\ StatisticsPanelStep("useEffect",
       [statisticsPanel EXCEPT
          !.movieId = movieId,
          !.requests = @ \cup {[id |-> uuidv4({r.id : r \in statisticsPanel.requests}),
                                movieId |-> movieId]},
          !.fetches = @ + 1])

\* fetchStatistics after its await, when getMovieStatistics resolved
FetchStatisticsResolves(request, stats) ==
  /\ request \in statisticsPanel.requests
  /\ stats.movie_id = request.movieId
  /\ StatisticsPanelStep("fetchStatistics",
       [statisticsPanel EXCEPT !.statistics = Some(stats),
                               !.loading = FALSE,
                               !.requests = @ \ {request}])

\* fetchStatistics after its await, when getMovieStatistics rejected
FetchStatisticsRejects(request) ==
  /\ request \in statisticsPanel.requests
  /\ StatisticsPanelStep("fetchStatistics",
       [statisticsPanel EXCEPT !.loading = FALSE, !.requests = @ \ {request}])

NextPanel ==
  \/ \E m \in PanelMovies : MovieIdChanges(m)
  \/ \E r \in statisticsPanel.requests, m \in PanelMovies, n \in PanelTotals :
       FetchStatisticsResolves(r, [movie_id |-> m, total_ratings |-> n])
  \/ \E r \in statisticsPanel.requests : FetchStatisticsRejects(r)

SpecPanel == Init /\ [][NextPanel]_vars

(* ------------------------------ RatingForm ----------------------------- *)
\* The form as rendered for a logged-in user: without one the render returns
\* the log-in prompt, which has neither stars nor button.
MaxSubmissions == 3

FormScores == {4, 8}
ServiceErrors == {"Network error"}

\* a step of the form
RatingFormStep(op, form) ==
  /\ ratingForm' = form
  /\ ret' = Result(op, "", None)
  /\ UNCHANGED <<comments, commentForm, commentItem, statisticsPanel>>
  /\ UNCHANGED memVars
  /\ UNCHANGED apiVars

\* the state setters both handlers run before their await, and the call they
\* then await; the handler was created by the latest render, so the
\* messageType its closures see is the one that render read
Submitting(op) ==
  [ratingForm EXCEPT
     !.isSubmitting = TRUE, !.message = "", !.messageType = "",
     !.calls = @ \cup {[id |-> ratingForm.submissions + 1, op |-> op,
                        messageType |-> ratingForm.messageType]},
     !.submissions = @ + 1]

\* handleRatingChange: setUserRating, then submitRating up to its await
HandleRatingChange(rating) ==
  /\ ratingForm.submissions < MaxSubmissions
  /\ RatingFormStep("handleRatingChange",
                    [Submitting("rateMovie") EXCEPT !.userRating = Some(rating)])

\* setTimeout(() => { if (messageType === 'success') ... }, 3000) called by
\* the handler that awaited call: the callback keeps that handler's messageType
setTimeout(form, call) ==
  [form EXCEPT !.timers = @ \cup {[id |-> call.id, messageType |-> call.messageType]}]

\* submitRating after its await, rateMovie having resolved
RateMovieResolves(call) ==
  /\ call \in ratingForm.calls /\ call.op = "rateMovie"
  /\ RatingFormStep("submitRating",
       setTimeout([ratingForm EXCEPT !.message = "Rating saved successfully",
                                     !.messageType = "success",
                                     !.isSubmitting = FALSE,
                                     !.calls = @ \ {call}], call))

\* submitRating after its await, rateMovie having rejected
RateMovieRejects(call, error) ==
  /\ call \in ratingForm.calls /\ call.op = "rateMovie"
  /\ RatingFormStep("submitRating",
       [ratingForm EXCEPT !.message = error, !.messageType = "error",
                          !.isSubmitting = FALSE, !.calls = @ \ {call}])

\* handleRemoveRating up to its await; the button exists while a rating is
\* shown and is disabled during a submission
HandleRemoveRating ==
  /\ ratingForm.userRating /= None
  /\ ~ratingForm.isSubmitting
  /\ ratingForm.submissions < MaxSubmissions
  /\ RatingFormStep("handleRemoveRating", Submitting("deleteRating"))

\* handleRemoveRating after its await, deleteRating having resolved
DeleteRatingResolves(call, success) ==
  /\ call \in ratingForm.calls /\ call.op = "deleteRating"
  /\ RatingFormStep("handleRemoveRating",
       IF success
       THEN setTimeout([ratingForm EXCEPT !.userRating = None,
                                          !.message = "Rating removed",
                                          !.messageType = "success",
                                          !.isSubmitting = FALSE,
                                          !.calls = @ \ {call}], call)
       ELSE [ratingForm EXCEPT !.message = "Failed to remove rating",
                               !.messageType = "error",
                               !.isSubmitting = FALSE,
                               !.calls = @ \ {call}])

\* handleRemoveRating after its await, deleteRating having rejected
DeleteRatingRejects(call, error) ==
  /\ call \in ratingForm.calls /\ call.op = "deleteRating"
  /\ RatingFormStep("handleRemoveRating",
       [ratingForm EXCEPT !.message = error, !.messageType = "error",
                          !.isSubmitting = FALSE, !.calls = @ \ {call}])

\* the callback of a timer runs, three seconds after it was set
TimerFires(timer) ==
  /\ timer \in ratingForm.timers
  /\ RatingFormStep("timer",
       IF timer.messageType = "success"
       THEN [ratingForm EXCEPT !.message = "", !.messageType = "",
                               !.timers = @ \ {timer}]
       ELSE [ratingForm EXCEPT !.timers = @ \ {timer}])

NextRatingForm ==
  \/ \E rating \in FormScores : HandleRatingChange(rating)
  \/ \E call \in ratingForm.calls : RateMovieResolves(call)
  \/ \E call \in ratingForm.calls, e \in ServiceErrors : RateMovieRejects(call, e)
  \/ HandleRemoveRating
  \/ \E call \in ratingForm.calls, success \in BOOLEAN : DeleteRatingResolves(call, success)
  \/ \E call \in ratingForm.calls, e \in ServiceErrors : DeleteRatingRejects(call, e)
  \/ \E timer \in ratingForm.timers : TimerFires(timer)

SpecRatingForm == Init /\ [][NextRatingForm]_vars

(* ------------------- the aggregation as a pure function ----------------- *)
\* Ratings-with-user handed to the four calculate*Statistics functions.
\* Only the fields these functions read are kept: score and the user's
\* age, gender, country and continent.
StatScores == {4, 8}
StatAges == {-1, 17, 18, 24, 25, 34, 35, 44, 45, 54, 55, 121}
StatGenders == {None, Some("male"), Some("female"), Some("other"),
                Some("prefer not to say"), Some("nonbinary")}
StatContinents ==
  {<<>>, sEurope, lEurope, sNorthAmerica, sSouthAmerica, sAfrica, sAsia, sAustralia,
   lAntarctica,
   <<"A","n","t","a","r","c","t","i","c","a">>,
   <<"A","N","T","A","R","C","T","I","C","A">>,
   <<"E","u","r","a","s","i","a">>,
   <<"M","a","r","s">>}
StatCountries == {"", "USA", "usa", "France", "Japan"}

StatUser(a, g, c, k) == [age |-> a, gender |-> g, country |-> c, continent |-> k]
DefaultUser == StatUser(Some(20), Some("male"), Some("France"), Some(sEurope))

\* users that differ from the default one in a single dimension, or in which
\* of the optional fields are present
AgeSlice == {[DefaultUser EXCEPT !.age = Some(a)] : a \in StatAges}
GenderSlice == {[DefaultUser EXCEPT !.gender = g] : g \in StatGenders}
ContinentSlice == {[DefaultUser EXCEPT !.continent = Some(k)] : k \in StatContinents}
CountrySlice == {[DefaultUser EXCEPT !.country = Some(c)] : c \in StatCountries}
AbsentSlice == {StatUser(a, Some("male"), c, k) :
                  a \in {None, Some(20)}, c \in {None, Some("France")},
                  k \in {None, Some(sEurope)}}
StatSlices == {AgeSlice, GenderSlice, ContinentSlice, CountrySlice, AbsentSlice}

\* the caller appends one more rating to the list it is going to pass
StatsAdd(r) ==
  /\ sStats = None
  /\ Len(sRatings) < MaxList
  /\ \E slice \in StatSlices :
       /\ r.user \in slice
       /\ \A i \in 1..Len(sRatings) : sRatings[i].user \in slice
  /\ sRatings' = Append(sRatings, r)
  /\ UNCHANGED <<users, currentUser, ratings, now, ret, sStats>>
  /\ UNCHANGED apiVars
  /\ UNCHANGED uiVars

\* the four calculate*Statistics calls of getMovieStatistics on the list
StatsCompute ==
  /\ sStats = None
  /\ sStats' = Some([ageStatistics |-> calculateAgeStatistics(sRatings),
                     genderStatistics |-> calculateGenderStatistics(sRatings),
                     continentStatistics |-> calculateContinentStatistics(sRatings),
                     countryStatistics |-> calculateCountryStatistics(sRatings)])
  /\ UNCHANGED <<users, currentUser, ratings, now, ret, sRatings>>
  /\ UNCHANGED apiVars
  /\ UNCHANGED uiVars

StatsNext ==
  \/ \E s \in StatScores, slice \in StatSlices : \E u \in slice :
       StatsAdd([score |-> s, user |-> u])
  \/ StatsCompute

SpecStats == Init /\ [][StatsNext]_vars

(* ----------------------------- ApiService ------------------------------ *)
MaxInFlight == 2
MaxApiCalls == 1

\* the cookie helpers of utils/cookieUtils, on the auth_token cookie
setCookie(value) == Some(value)
removeCookie == None
getCookie == cookie

\* getToken(), read from a given cookie state
getToken(c) == c

\* if (token): neither null nor the empty string
tokenTruthy(token) == token /= None /\ Val(token) /= ""

\* `Bearer ${token}`
Bearer(token) == <<"Bearer ", token>>

\* variant: the Authorization header is never appended
headersWithoutToken(contentType, c) ==
  [ContentType |-> contentType, Authorization |-> None]

\* new Headers() with the content type and, when a token is stored, the
\* Authorization header; c is the cookie state the token is read from
headersWith(contentType, c) ==
  LET token == getToken(c)
  IN  [ContentType |-> contentType,
       Authorization |-> IF tokenTruthy(token) THEN Some(Bearer(Val(token))) ELSE None]

createHeaders(c) == headersWith("application/json", c)

\* the headers postFormUrlEncoded builds itself
formHeaders(c) == headersWith("application/x-www-form-urlencoded", c)

\* JSON.stringify(data)
jsonBody(data) == Some([encoding |-> "json", data |-> data])

\* key=value pairs of data joined by '&', in the order of Object.keys
formBody(data, keys) ==
  Some([encoding |-> "form",
        data |-> [i \in 1..Len(keys) |-> <<keys[i], data[keys[i]]>>]])

\* the call of fetch: cont names the code that awaits the response
Request(method, endpoint, headers, body, cont) ==
  [id |-> uuidv4({r.id : r \in inflight}),
   method |-> method, endpoint |-> endpoint, headers |-> headers,
   body |-> body, cont |-> cont]

\* a response: its status, whether response.json() succeeds, and the value
\* it yields, null or an object
Response(status, parses, isNull, obj) ==
  [status |-> status, parses |-> parses, isNull |-> isNull, obj |-> obj]

\* the object {}
EmptyObject == [f \in {} |-> None]

\* values of a 'detail' field: a string, or an array of n objects
DetailString(text) == [type |-> "string", text |-> text, len |-> 0]
DetailArray(n) == [type |-> "array", text |-> "", len |-> n]

\* truthiness of errorData.detail
detailTruthy(obj) ==
  /\ "detail" \in DOMAIN obj
  /\ obj.detail.type = "string" => obj.detail.text /= ""

\* the message new Error(detail) gets: String(detail)
detailMessage(detail) ==
  IF detail.type = "string" THEN detail.text
  ELSE IF detail.len = 0 THEN ""
  ELSE IF detail.len = 1 THEN "[object Object]"
  ELSE "[object Object],[object Object]"

Statuses == {199, 200, 204, 299, 300, 401, 422, 500}

\* `API error: ${response.status}`
apiErrorMessage(status) ==
  CASE status = 199 -> "API error: 199"
    [] status = 200 -> "API error: 200"
    [] status = 204 -> "API error: 204"
    [] status = 299 -> "API error: 299"
    [] status = 300 -> "API error: 300"
    [] status = 401 -> "API error: 401"
    [] status = 422 -> "API error: 422"
    [] status = 500 -> "API error: 500"

\* response.ok
ok(response) == response.status >= 200 /\ response.status <= 299

NullDetailError == "Cannot read properties of null (reading 'detail')"
JsonSyntaxError == "Unexpected end of JSON input"

Resolved(val) == [err |-> "", val |-> val]
Rejected(message) == [err |-> message, val |-> None]

\* variant: the body of every response is parsed and returned
handleResponseIgnoresStatus(response) ==
  IF response.parses
  THEN Resolved([isNull |-> response.isNull, obj |-> response.obj])
  ELSE Rejected(JsonSyntaxError)

\* the promise handleResponse returns: resolved with the parsed body, or
\* rejected with the message of the error thrown
handleResponse(response) ==
  IF ~ok(response)
  THEN IF response.parses /\ response.isNull
       THEN Rejected(NullDetailError)
       ELSE LET errorData == IF response.parses THEN response.obj ELSE EmptyObject
            IN  IF detailTruthy(errorData)
                THEN Rejected(detailMessage(errorData.detail))
                ELSE Rejected(apiErrorMessage(response.status))
  ELSE IF response.parses
       THEN Resolved([isNull |-> response.isNull, obj |-> response.obj])
       ELSE Rejected(JsonSyntaxError)

\* fetch is called with the request
fetch(request) ==
  /\ Cardinality(inflight) < MaxInFlight
  /\ inflight' = inflight \cup {request}

Tokens == {"", "t1", "t2"}
Endpoints == {"/comments/c1"}
Payloads == {[text |-> "hello"]}
Details == {DetailString(""), DetailString("Error message"), DetailArray(1)}
Objects ==
  {EmptyObject, [id |-> "c1"]} \cup {[detail |-> d] : d \in Details}
Responses ==
  {Response(st, FALSE, FALSE, EmptyObject) : st \in Statuses}
    \cup {Response(st, TRUE, TRUE, EmptyObject) : st \in Statuses}
    \cup {Response(st, TRUE, FALSE, o) : st \in Statuses, o \in Objects}

SetToken(token) ==
  /\ cookie' = setCookie(token)
  /\ notified' = <<>>
  /\ UNCHANGED <<inflight, currentUserApi, authStateListeners, ret>>
  /\ UNCHANGED memVars
  /\ UNCHANGED uiVars

ClearToken ==
  /\ cookie' = removeCookie
  /\ notified' = <<>>
  /\ UNCHANGED <<inflight, currentUserApi, authStateListeners, ret>>
  /\ UNCHANGED memVars
  /\ UNCHANGED uiVars

\* the part of a request method up to its await: another service calls it
ApiSends(request) ==
  /\ Cardinality(inflight) < MaxApiCalls
  /\ fetch(request)
  /\ notified' = <<>>
  /\ UNCHANGED <<cookie, currentUserApi, authStateListeners, ret>>
  /\ UNCHANGED memVars
  /\ UNCHANGED uiVars

ApiGet(endpoint) ==
  ApiSends(Request("GET", endpoint, createHeaders(cookie), None, "caller"))

ApiPost(endpoint, data) ==
  ApiSends(Request("POST", endpoint, createHeaders(cookie), jsonBody(data), "caller"))

ApiPostFormUrlEncoded(endpoint, data) ==
  ApiSends(Request("POST", endpoint, formHeaders(cookie), formBody(data, <<"text">>),
                   "caller"))

ApiPut(endpoint, data) ==
  ApiSends(Request("PUT", endpoint, createHeaders(cookie), jsonBody(data), "caller"))

ApiDelete(endpoint) ==
  ApiSends(Request("DELETE", endpoint, createHeaders(cookie), None, "caller"))

\* the response arrives and the method returns handleResponse(response)
ApiReturns(request, response) ==
  /\ request \in inflight
  /\ request.cont = "caller"
  /\ inflight' = inflight \ {request}
  /\ LET result == handleResponse(response)
     IN  ret' = Spread(Result(request.method, result.err, result.val),
                       [response |-> response])
  /\ notified' = <<>>
  /\ UNCHANGED <<cookie, currentUserApi, authStateListeners>>
  /\ UNCHANGED memVars
  /\ UNCHANGED uiVars

NextApi ==
  \/ \E t \in Tokens : SetToken(t)
  \/ ClearToken
  \/ \E e \in Endpoints : ApiGet(e)
  \/ \E e \in Endpoints, d \in Payloads : ApiPost(e, d)
  \/ \E e \in Endpoints, d \in Payloads : ApiPostFormUrlEncoded(e, d)
  \/ \E e \in Endpoints, d \in Payloads : ApiPut(e, d)
  \/ \E e \in Endpoints : ApiDelete(e)
  \/ \E r \in inflight, resp \in Responses : ApiReturns(r, resp)

SpecApi == Init /\ [][NextApi]_vars

(* --------------------- UserService over the API ------------------------ *)
MaxListeners == 2

\* callback(user)
Call(callback, user) == [callback |-> callback, user |-> user]

\* this.authStateListeners.forEach(callback => callback(user))
notifyAll(listeners, user) == [i \in 1..Len(listeners) |-> Call(listeners[i], user)]

\* setCurrentUser(user)
setCurrentUser(user) ==
  /\ currentUserApi' = user
  /\ notified' = notifyAll(authStateListeners, user)

\* whether the promise was rejected
IsRejected(result) == result.val = None

Callbacks == {"cb1", "cb2"}
LoginDtos == {[email |-> "ann@x", password |-> "pw"], [email |-> "bob@x", password |-> "bad"]}
AccessTokens == {"t1", "t2"}
Profiles == {[id |-> "u1", username |-> "ann"], [id |-> "u2", username |-> "bob"],
             [id |-> "u1", username |-> "newName"]}
ProfileIds == {"u1", "u2", "u3"}
ProfileUpdates == {[username |-> "newName"]}

\* what the server may answer to POST /auth/login and to /users/me
LoginResponses ==
  {Response(200, TRUE, FALSE, [access_token |-> t, token_type |-> "bearer"]) :
     t \in AccessTokens}
    \cup {Response(401, TRUE, FALSE,
                   [detail |-> DetailString("Incorrect email or password")])}
ProfileResponses ==
  {Response(200, TRUE, FALSE, u) : u \in Profiles}
    \cup {Response(401, TRUE, FALSE,
                   [detail |-> DetailString("Could not validate credentials")])}

\* the state after the module is loaded: the constructor has started
\* checkForExistingSession, which has sent GET /users/me if a token was stored
InitAuth ==
  /\ users = <<>>
  /\ currentUser = None
  /\ ratings = <<>>
  /\ now = 0
  /\ ret = Result("init", "", None)
  /\ sRatings = <<>>
  /\ sStats = None
  /\ cookie \in {None, Some("t1")}
  /\ inflight = IF tokenTruthy(cookie)
                THEN {[id |-> 1, method |-> "GET", endpoint |-> "/users/me",
                       headers |-> createHeaders(cookie), body |-> None,
                       cont |-> "session"]}
                ELSE {}
  /\ currentUserApi = None
  /\ authStateListeners = <<>>
  /\ notified = <<>>
  /\ UiInit

\* variant: the callback is stored but not called
AddAuthStateListenerSilent(callback) ==
  /\ Len(authStateListeners) < MaxListeners
  /\ authStateListeners' = Append(authStateListeners, callback)
  /\ notified' = <<>>
  /\ UNCHANGED <<cookie, inflight, currentUserApi, ret>>
  /\ UNCHANGED memVars
  /\ UNCHANGED uiVars

AddAuthStateListener(callback) ==
  /\ Len(authStateListeners) < MaxListeners
  /\ authStateListeners' = Append(authStateListeners, callback)
  /\ notified' = <<Call(callback, currentUserApi)>>
  /\ UNCHANGED <<cookie, inflight, currentUserApi, ret>>
  /\ UNCHANGED memVars
  /\ UNCHANGED uiVars

\* variant: only the first occurrence of the callback is removed
RemoveAuthStateListenerFirst(callback) ==
  /\ authStateListeners' =
       IF \E i \in 1..Len(authStateListeners) : authStateListeners[i] = callback
       THEN LET i == CHOOSE i \in 1..Len(authStateListeners) :
                       /\ authStateListeners[i] = callback
                       /\ \A j \in 1..(i - 1) : authStateListeners[j] /= callback
            IN  SubSeq(authStateListeners, 1, i - 1)
                  \o SubSeq(authStateListeners, i + 1, Len(authStateListeners))
       ELSE authStateListeners
  /\ notified' = <<>>
  /\ UNCHANGED <<cookie, inflight, currentUserApi, ret>>
  /\ UNCHANGED memVars
  /\ UNCHANGED uiVars

RemoveAuthStateListener(callback) ==
  /\ authStateListeners' = SelectSeq(authStateListeners, LAMBDA cb : cb /= callback)
  /\ notified' = <<>>
  /\ UNCHANGED <<cookie, inflight, currentUserApi, ret>>
  /\ UNCHANGED memVars
  /\ UNCHANGED uiVars

\* login up to its first await: the form is posted. The call remembers, in
\* `before`, the token that was stored when it was made
LoginRequest(credentials) ==
  /\ LET formData == [username |-> credentials.email, password |-> credentials.password]
     IN  fetch(Spread(Request("POST", "/auth/login", formHeaders(cookie),
                              formBody(formData, <<"username", "password">>), "login"),
                      [before |-> cookie]))
  /\ notified' = <<>>
  /\ UNCHANGED <<cookie, currentUserApi, authStateListeners, ret>>
  /\ UNCHANGED memVars
  /\ UNCHANGED uiVars

\* variant: the profile request is built before the token is stored
LoginTokenResponseProfileFirst(request, response) ==
  /\ request \in inflight
  /\ request.cont = "login"
  /\ LET result == handleResponse(response)
     IN  IF IsRejected(result)
         THEN /\ inflight' = inflight \ {request}
              /\ ret' = Result("login", result.err, None)
              /\ UNCHANGED cookie
         ELSE /\ cookie' = setCookie(result.val.obj.access_token)
              /\ inflight' = (inflight \ {request}) \cup
                   {Spread(Request("GET", "/users/me", createHeaders(cookie), None,
                                   "loginProfile"),
                           [before |-> request.before])}
              /\ UNCHANGED ret
  /\ notified' = <<>>
  /\ UNCHANGED <<currentUserApi, authStateListeners>>
  /\ UNCHANGED memVars
  /\ UNCHANGED uiVars

\* login between its two awaits: the token is stored and the profile requested
LoginTokenResponse(request, response) ==
  /\ request \in inflight
  /\ request.cont = "login"
  /\ LET result == handleResponse(response)
     IN  IF IsRejected(result)
         THEN /\ inflight' = inflight \ {request}
              /\ ret' = Result("login", result.err, None)
              /\ UNCHANGED cookie
         ELSE LET stored == setCookie(result.val.obj.access_token)
              IN  /\ cookie' = stored
                  /\ inflight' = (inflight \ {request}) \cup
                       {Spread(Request("GET", "/users/me", createHeaders(stored), None,
                                       "loginProfile"),
                               [before |-> request.before])}
                  /\ UNCHANGED ret
  /\ notified' = <<>>
  /\ UNCHANGED <<currentUserApi, authStateListeners>>
  /\ UNCHANGED memVars
  /\ UNCHANGED uiVars

\* login after its second await
LoginProfileResponse(request, response) ==
  /\ request \in inflight
  /\ request.cont = "loginProfile"
  /\ inflight' = inflight \ {request}
  /\ LET result == handleResponse(response)
     IN  IF IsRejected(result)
         THEN /\ ret' = Result("login", result.err, None)
              /\ notified' = <<>>
              /\ UNCHANGED currentUserApi
         ELSE /\ setCurrentUser(Some(result.val.obj))
              /\ ret' = Result("login", "", result.val.obj)
  /\ UNCHANGED <<cookie, authStateListeners>>
  /\ UNCHANGED memVars
  /\ UNCHANGED uiVars

\* checkForExistingSession after its await
SessionProfileResponse(request, response) ==
  /\ request \in inflight
  /\ request.cont = "session"
  /\ inflight' = inflight \ {request}
  /\ LET result == handleResponse(response)
     IN  IF IsRejected(result)
         THEN /\ cookie' = removeCookie
              /\ setCurrentUser(None)
         ELSE /\ setCurrentUser(Some(result.val.obj))
              /\ UNCHANGED cookie
  /\ ret' = Result("checkForExistingSession", "", None)
  /\ UNCHANGED authStateListeners
  /\ UNCHANGED memVars
  /\ UNCHANGED uiVars

\* variant: the token stays in the cookie
LogoutApiKeepsToken ==
  /\ setCurrentUser(None)
  /\ ret' = Result("logout", "", None)
  /\ UNCHANGED <<cookie, inflight, authStateListeners>>
  /\ UNCHANGED memVars
  /\ UNCHANGED uiVars

LogoutApi ==
  /\ cookie' = removeCookie
  /\ setCurrentUser(None)
  /\ ret' = Result("logout", "", None)
  /\ UNCHANGED <<inflight, authStateListeners>>
  /\ UNCHANGED memVars
  /\ UNCHANGED uiVars

\* variant: the PUT is sent for whatever id while somebody is logged in
UpdateUserRequestAnyId(id, userData) ==
  /\ IF currentUserApi /= None
     THEN /\ fetch(Request("PUT", "/users/me", createHeaders(cookie),
                           jsonBody(userData), "updateUser"))
          /\ UNCHANGED ret
     ELSE /\ ret' = Result("updateUser", "Can only update the current user", None)
          /\ UNCHANGED inflight
  /\ notified' = <<>>
  /\ UNCHANGED <<cookie, currentUserApi, authStateListeners>>
  /\ UNCHANGED memVars
  /\ UNCHANGED uiVars

\* updateUser up to its await, or to its throw
UpdateUserRequest(id, userData) ==
  /\ IF currentUserApi /= None /\ Val(currentUserApi).id = id
     THEN /\ fetch(Request("PUT", "/users/me", createHeaders(cookie),
                           jsonBody(userData), "updateUser"))
          /\ UNCHANGED ret
     ELSE /\ ret' = Result("updateUser", "Can only update the current user", None)
          /\ UNCHANGED inflight
  /\ notified' = <<>>
  /\ UNCHANGED <<cookie, currentUserApi, authStateListeners>>
  /\ UNCHANGED memVars
  /\ UNCHANGED uiVars

\* updateUser after its await
UpdateUserResponse(request, response) ==
  /\ request \in inflight
  /\ request.cont = "updateUser"
  /\ inflight' = inflight \ {request}
  /\ LET result == handleResponse(response)
     IN  IF IsRejected(result)
         THEN /\ ret' = Result("updateUser", result.err, None)
              /\ UNCHANGED currentUserApi
         ELSE /\ currentUserApi' = Some(result.val.obj)
              /\ ret' = Result("updateUser", "", result.val.obj)
  /\ notified' = <<>>
  /\ UNCHANGED <<cookie, authStateListeners>>
  /\ UNCHANGED memVars
  /\ UNCHANGED uiVars

NextAuth ==
  \/ \E cb \in Callbacks : AddAuthStateListener(cb)
  \/ \E cb \in Callbacks : RemoveAuthStateListener(cb)
  \/ \E c \in LoginDtos : LoginRequest(c)
  \/ \E r \in inflight, resp \in LoginResponses : LoginTokenResponse(r, resp)
  \/ \E r \in inflight, resp \in ProfileResponses : LoginProfileResponse(r, resp)
  \/ \E r \in inflight, resp \in ProfileResponses : SessionProfileResponse(r, resp)
  \/ LogoutApi
  \/ \E id \in ProfileIds, d \in ProfileUpdates : UpdateUserRequest(id, d)
  \/ \E r \in inflight, resp \in ProfileResponses : UpdateUserResponse(r, resp)

SpecAuth == InitAuth /\ [][NextAuth]_vars

(* ------------------------------ properties ----------------------------- *)
RECURSIVE MaskSum(_, _, _)
\* sum of the scores of the first n ratings of rs that the mask selects
MaskSum(rs, mask, n) ==
  IF n = 0 THEN 0
  ELSE MaskSum(rs, mask, n - 1) + (IF mask[n] THEN rs[n].score ELSE 0)

RECURSIVE MaskCount(_, _)
\* number of positions up to n that the mask selects
MaskCount(mask, n) ==
  IF n = 0 THEN 0 ELSE MaskCount(mask, n - 1) + (IF mask[n] THEN 1 ELSE 0)

\* v is the mean score of the ratings of rs selected by the mask, or 0 when
\* the mask selects none
MeanOrZero(v, rs, mask) ==
  LET cnt == MaskCount(mask, Len(rs))
  IN  IF cnt = 0 THEN v = Zero
      ELSE v.den > 0 /\ v.num * cnt = v.den * MaskSum(rs, mask, Len(rs))

\* v is that mean when the mask selects at least one rating
MeanIfAny(v, rs, mask) == MaskCount(mask, Len(rs)) > 0 => MeanOrZero(v, rs, mask)

\* C1: the rating store holds at most one rating for each (movieId, userId)
\* pair, whatever calls were made.
C1_OneRatingPerPair ==
  \A i, j \in 1..Len(ratings) :
     (ratings[i].movieId = ratings[j].movieId /\ ratings[i].userId = ratings[j].userId)
        => i = j

\* a user has resubmitted a rating and the store holds two ratings
C1_Witness ==
  /\ Len(ratings) = 2
  /\ ret.op = "rateMovie" /\ ret.err = ""
  /\ ret.val.score = 8
  /\ \E i \in 1..Len(ratings) : ratings[i] = ret.val /\ ret.val.updatedAt > ret.val.createdAt

\* the logged-in user already has a rating for movie m
HasRated(m) ==
  /\ currentUser /= None
  /\ \E i \in 1..Len(ratings) :
       ratings[i].movieId = m /\ ratings[i].userId = Val(currentUser).id

\* C2: when the logged-in user already has a rating for the movie, rateMovie
\* replaces only that rating's score and updatedAt: its id, userId, movieId and
\* createdAt, the number of stored ratings and every other rating are unchanged.
C2_ResubmitUpdatesInPlace ==
  [][\A m \in Movies, s \in Scores :
       (HasRated(m) /\ RateMovie([movieId |-> m, score |-> s])) =>
          /\ Len(ratings') = Len(ratings)
          /\ \A j \in 1..Len(ratings) :
               IF ratings[j].movieId = m /\ ratings[j].userId = Val(currentUser).id
               THEN /\ ratings'[j].id = ratings[j].id
                    /\ ratings'[j].userId = ratings[j].userId
                    /\ ratings'[j].movieId = ratings[j].movieId
                    /\ ratings'[j].createdAt = ratings[j].createdAt
                    /\ ratings'[j].score = s
                    /\ ratings'[j].updatedAt = now
               ELSE ratings'[j] = ratings[j]]_vars

\* a resubmission with another score, made later than the first submission,
\* while the store also holds a rating that must stay as it is
C2_Witness ==
  /\ ret.op = "rateMovie" /\ ret.err = ""
  /\ ret.val.updatedAt > ret.val.createdAt
  /\ ret.val.score = 4
  /\ \E i, j \in 1..Len(ratings) : i /= j /\ ratings[i] = ret.val

\* positions of sRatings
Idx == 1..Len(sRatings)

\* a present, non-empty string
Truthy(o, empty) == o /= None /\ o /= Some(empty)

\* the function f over 1..n as a sequence
AsSeq(f) == f \o <<>>

\* selects the positions of keys that hold k
Members(keys, k) == [i \in DOMAIN keys |-> keys[i] = k]

\* for each rating of sRatings, the bucket the code files it under in each
\* dimension, "" when it files it under none
CodeAgeKey ==
  AsSeq([i \in Idx |-> IF sRatings[i].user.age = None THEN ""
                       ELSE ageGroup(Val(sRatings[i].user.age))])
CodeGenderKey == AsSeq([i \in Idx |-> genderGroup(sRatings[i].user.gender)])
CodeContinentKey ==
  AsSeq([i \in Idx |->
           IF ~Truthy(sRatings[i].user.continent, <<>>) THEN ""
           ELSE LET key == continentKey(Val(sRatings[i].user.continent))
                IN  IF key = None THEN "" ELSE Val(key)])
CodeCountryKey ==
  AsSeq([i \in Idx |-> IF sRatings[i].user.country = None THEN ""
                       ELSE Val(sRatings[i].user.country)])

\* the two raters of the example: scores 8 and 4, Europe and europe, France
ExampleRatings ==
  <<[score |-> 8, user |-> DefaultUser],
    [score |-> 4, user |-> [DefaultUser EXCEPT !.continent = Some(lEurope)]]>>

\* C3: in each of the four dimensions the value reported for a bucket with at
\* least one matching rating is the mean score of the ratings of that bucket,
\* not their number; scores 8 and 4 of two European raters from France give
\* europe = 6 and France = 6.
C3_BucketsAreMeans ==
  sStats /= None =>
    LET st == Val(sStats)
        age == CodeAgeKey
        gender == CodeGenderKey
        continent == CodeContinentKey
        country == CodeCountryKey
    IN  /\ \A k \in AgeKeys :
             MeanIfAny(st.ageStatistics[k], sRatings, Members(age, k))
        /\ \A k \in GenderKeys :
             MeanIfAny(st.genderStatistics[k], sRatings, Members(gender, k))
        /\ \A k \in ContinentKeys :
             MeanIfAny(st.continentStatistics[k], sRatings, Members(continent, k))
        /\ \A c \in DOMAIN st.countryStatistics :
             MeanIfAny(st.countryStatistics[c], sRatings, Members(country, c))
        /\ sRatings = ExampleRatings =>
             /\ st.continentStatistics["europe"] = [num |-> 6, den |-> 1]
             /\ st.countryStatistics["France"] = [num |-> 6, den |-> 1]

\* the statistics of the example have been computed
C3_Witness ==
  /\ sStats /= None
  /\ sRatings = ExampleRatings
  /\ Val(sStats).continentStatistics["europe"] = [num |-> 6, den |-> 1]

\* the bucket the claim assigns to an integer age
ClaimAgeBucket(age) ==
  CASE age < 18 -> "under18"
    [] age \in 18..24 -> "age18to24"
    [] age \in 25..34 -> "age25to34"
    [] age \in 35..44 -> "age35to44"
    [] age \in 45..54 -> "age45to54"
    [] age >= 55 -> "age55plus"

\* for each rating, the age bucket the claim gives it, "" without an age
ClaimAgeKey ==
  AsSeq([i \in Idx |-> IF sRatings[i].user.age = None THEN ""
                       ELSE ClaimAgeBucket(Val(sRatings[i].user.age))])

\* C4: a rating with an integer age contributes to exactly one age bucket:
\* under18 below 18, age18to24 for 18..24, age25to34 for 25..34, age35to44 for
\* 35..44, age45to54 for 45..54 and age55plus from 55 on; 18 goes to age18to24,
\* 55 to age55plus, negative ages to under18 and ages above 120 to age55plus.
C4_AgeBuckets ==
  sStats /= None =>
    LET st == Val(sStats)
        acc == ageFold(sRatings, Len(sRatings))
        claimed == ClaimAgeKey
    IN  /\ \A k \in AgeKeys :
             /\ acc.count[k] = MaskCount(Members(claimed, k), Len(sRatings))
             /\ MeanOrZero(st.ageStatistics[k], sRatings, Members(claimed, k))
        /\ \A i \in Idx :
             LET age == sRatings[i].user.age
             IN  /\ age = Some(18) => claimed[i] = "age18to24"
                 /\ age = Some(55) => claimed[i] = "age55plus"
                 /\ age = Some(-1) => claimed[i] = "under18"
                 /\ age = Some(121) => claimed[i] = "age55plus"

\* a rater aged 18 and a rater aged 55 with different scores
C4_Witness ==
  /\ sStats /= None
  /\ Len(sRatings) = 2
  /\ sRatings[1].user.age = Some(18) /\ sRatings[1].score = 4
  /\ sRatings[2].user.age = Some(55) /\ sRatings[2].score = 8
  /\ Val(sStats).ageStatistics["age18to24"] = [num |-> 4, den |-> 1]
  /\ Val(sStats).ageStatistics["age55plus"] = [num |-> 8, den |-> 1]

RECURSIVE Total(_, _)
\* sum of the values of the function f over the keys in S
Total(f, S) ==
  IF S = {} THEN 0
  ELSE LET k == CHOOSE x \in S : TRUE IN f[k] + Total(f, S \ {k})

\* C5: a rating without age contributes to no age bucket, one without
\* continent to no continent bucket, one without country to no country bucket;
\* it is still counted in the other dimensions, and age, continent and country
\* get no bucket for unknown values.
C5_AbsentFieldsSkipped ==
  sStats /= None =>
    LET st == Val(sStats)
        n == Len(sRatings)
        age == ageFold(sRatings, n).count
        gender == genderFold(sRatings, n).count
        continent == continentFold(sRatings, n).count
        country == countryFold(sRatings, n).count
        withAge == MaskCount([i \in Idx |-> sRatings[i].user.age /= None], n)
        withContinent == MaskCount([i \in Idx |-> sRatings[i].user.continent /= None], n)
        withCountry == MaskCount([i \in Idx |-> sRatings[i].user.country /= None], n)
    IN  /\ Total(age, AgeKeys) = withAge
        /\ Total(continent, ContinentKeys) <= withContinent
        /\ Total(country, DOMAIN country) <= withCountry
        /\ Total(gender, GenderKeys) = n
        /\ (\A i \in Idx : sRatings[i].user \in AbsentSlice) =>
             /\ Total(continent, ContinentKeys) = withContinent
             /\ Total(country, DOMAIN country) = withCountry
        /\ withAge = 0 => \A k \in AgeKeys : st.ageStatistics[k] = Zero
        /\ withContinent = 0 => \A k \in ContinentKeys : st.continentStatistics[k] = Zero
        /\ withCountry = 0 => DOMAIN st.countryStatistics = {}
        /\ DOMAIN st.ageStatistics = AgeKeys
        /\ DOMAIN st.continentStatistics = ContinentKeys
        /\ \A c \in DOMAIN st.countryStatistics :
             \E i \in Idx : sRatings[i].user.country = Some(c)

\* a rater without age and continent but with a country, and a rater with an
\* age only: each is counted where its fields are present and nowhere else
C5_Witness ==
  /\ sStats /= None
  /\ Len(sRatings) = 2
  /\ sRatings[1] = [score |-> 8, user |-> StatUser(None, Some("male"), Some("France"), None)]
  /\ sRatings[2] = [score |-> 4, user |-> StatUser(Some(20), Some("male"), None, None)]
  /\ Val(sStats).ageStatistics["age18to24"] = [num |-> 4, den |-> 1]
  /\ Val(sStats).countryStatistics = [c \in {"France"} |-> [num |-> 8, den |-> 1]]
  /\ Val(sStats).genderStatistics["male"] = [num |-> 6, den |-> 1]

\* the bucket the claim assigns to an optional gender string
ClaimGenderBucket(gender) ==
  IF gender \in {Some("male"), Some("female"), Some("other")}
  THEN Val(gender) ELSE "notSpecified"

ClaimGenderKey == AsSeq([i \in Idx |-> ClaimGenderBucket(sRatings[i].user.gender)])

\* C6: every rating is counted in exactly one gender bucket: male, female and
\* other in the bucket of that name, every other value (absent, 'prefer not to
\* say', 'nonbinary') in notSpecified.
C6_GenderBuckets ==
  sStats /= None =>
    LET st == Val(sStats)
        acc == genderFold(sRatings, Len(sRatings))
        claimed == ClaimGenderKey
    IN  /\ Total(acc.count, GenderKeys) = Len(sRatings)
        /\ \A k \in GenderKeys :
             /\ acc.count[k] = MaskCount(Members(claimed, k), Len(sRatings))
             /\ MeanOrZero(st.genderStatistics[k], sRatings, Members(claimed, k))
        /\ \A i \in Idx :
             sRatings[i].user.gender \in {None, Some("prefer not to say"), Some("nonbinary")}
               => claimed[i] = "notSpecified"

\* a rater without gender and a nonbinary rater share the notSpecified bucket
C6_Witness ==
  /\ sStats /= None
  /\ Len(sRatings) = 2
  /\ sRatings[1].user.gender = None /\ sRatings[1].score = 8
  /\ sRatings[2].user.gender = Some("nonbinary") /\ sRatings[2].score = 4
  /\ Val(sStats).genderStatistics["notSpecified"] = [num |-> 6, den |-> 1]
  /\ Val(sStats).genderStatistics["other"] = Zero

\* the seven continent names, in lower case
ClaimContinentName ==
  [k \in ContinentKeys |->
     CASE k = "africa" -> lAfrica
       [] k = "asia" -> lAsia
       [] k = "europe" -> lEurope
       [] k = "northAmerica" -> lNorthAmerica
       [] k = "southAmerica" -> lSouthAmerica
       [] k = "australia" -> lAustralia
       [] k = "antarctica" -> lAntarctica]

\* for each continent string of the inputs, the keys whose name it contains,
\* whatever its case
ClaimContinentMatches ==
  [str \in StatContinents |->
     {k \in ContinentKeys : Includes(ToLowerCase(str), ClaimContinentName[k])}]

\* selects the ratings whose continent string contains the name of k
ClaimContinentMembers(k) ==
  [i \in Idx |-> /\ Truthy(sRatings[i].user.continent, <<>>)
                 /\ k \in ClaimContinentMatches[Val(sRatings[i].user.continent)]]

IsAntarcticaSpelling(o) ==
  o \in {Some(lAntarctica),
         Some(<<"A","n","t","a","r","c","t","i","c","a">>),
         Some(<<"A","N","T","A","R","C","T","I","C","A">>)}

\* C7: the continent string is matched case-insensitively by substring against
\* the seven names ('antarctica', 'Antarctica', 'ANTARCTICA' all count in
\* antarctica), and a string containing none of them ('Mars') is counted in no
\* continent bucket.
C7_ContinentMatching ==
  sStats /= None =>
    LET st == Val(sStats)
        acc == continentFold(sRatings, Len(sRatings))
    IN  /\ \A k \in ContinentKeys :
             /\ acc.count[k] = MaskCount(ClaimContinentMembers(k), Len(sRatings))
             /\ MeanOrZero(st.continentStatistics[k], sRatings, ClaimContinentMembers(k))
        /\ \A i \in Idx :
             /\ IsAntarcticaSpelling(sRatings[i].user.continent)
                  => ClaimContinentMembers("antarctica")[i]
             /\ sRatings[i].user.continent = Some(<<"M","a","r","s">>)
                  => \A k \in ContinentKeys : ~ClaimContinentMembers(k)[i]

\* a rater from 'ANTARCTICA' and a rater from 'Mars'
C7_Witness ==
  /\ sStats /= None
  /\ Len(sRatings) = 2
  /\ sRatings[1].user.continent = Some(<<"A","N","T","A","R","C","T","I","C","A">>)
  /\ sRatings[1].score = 8
  /\ sRatings[2].user.continent = Some(<<"M","a","r","s">>)
  /\ sRatings[2].score = 4
  /\ Val(sStats).continentStatistics =
       [k \in ContinentKeys |-> IF k = "antarctica" THEN [num |-> 8, den |-> 1] ELSE Zero]

\* C8: countryStatistics has exactly one key per distinct non-empty country
\* string of the raters, compared as written ('USA' and 'usa' are two keys),
\* and no other key.
C8_CountryKeys ==
  sStats /= None =>
    LET st == Val(sStats)
        country == CodeCountryKey
        countries == {country[i] : i \in Idx} \ {""}
    IN  /\ DOMAIN st.countryStatistics = countries
        /\ \A c \in countries :
             MeanOrZero(st.countryStatistics[c], sRatings, Members(country, c))
        /\ ({"USA", "usa"} \subseteq countries) =>
             /\ "USA" \in DOMAIN st.countryStatistics
             /\ "usa" \in DOMAIN st.countryStatistics

\* a rater from 'USA' and a rater from 'usa' give two buckets
C8_Witness ==
  /\ sStats /= None
  /\ Len(sRatings) = 2
  /\ sRatings[1].user.country = Some("USA") /\ sRatings[1].score = 8
  /\ sRatings[2].user.country = Some("usa") /\ sRatings[2].score = 4
  /\ Val(sStats).countryStatistics =
       [c \in {"USA", "usa"} |-> IF c = "USA" THEN [num |-> 8, den |-> 1]
                                 ELSE [num |-> 4, den |-> 1]]

\* C9: every result has the six age keys, the four gender keys and the seven
\* continent keys; a bucket no rating falls into is 0, and for an empty rating
\* list all of them are 0.
C9_FixedKeysZeroWhenEmpty ==
  sStats /= None =>
    LET st == Val(sStats)
        age == ClaimAgeKey
        gender == ClaimGenderKey
    IN  /\ DOMAIN st.ageStatistics = AgeKeys
        /\ DOMAIN st.genderStatistics = GenderKeys
        /\ DOMAIN st.continentStatistics = ContinentKeys
        /\ \A k \in AgeKeys :
             (\A i \in Idx : age[i] /= k) => st.ageStatistics[k] = Zero
        /\ \A k \in GenderKeys :
             (\A i \in Idx : gender[i] /= k) => st.genderStatistics[k] = Zero
        /\ \A k \in ContinentKeys :
             (\A i \in Idx : ~ClaimContinentMembers(k)[i])
               => st.continentStatistics[k] = Zero
        /\ sRatings = <<>> =>
             /\ st.ageStatistics = [k \in AgeKeys |-> Zero]
             /\ st.genderStatistics = [k \in GenderKeys |-> Zero]
             /\ st.continentStatistics = [k \in ContinentKeys |-> Zero]

\* the statistics of an empty rating list have been computed
C9_Witness ==
  /\ sStats /= None
  /\ sRatings = <<>>
  /\ Val(sStats).genderStatistics = [k \in GenderKeys |-> Zero]

\* selects the stored ratings of movie m
StoredFor(m) == [i \in 1..Len(ratings) |-> ratings[i].movieId = m]

\* C10: averageRating and totalRatings of the result of getMovieStatistics are
\* the values of the aggregate query getMovieRating(movieId) (the mean and the
\* number of the ratings stored for the movie), 0 and 0 for an unrated movie.
C10_AggregatePassedThrough ==
  (ret.op = "getMovieStatistics" /\ ret.err = "") =>
     LET m == ret.val.movieId
     IN  /\ ret.val.totalRatings = MaskCount(StoredFor(m), Len(ratings))
         /\ MeanOrZero(ret.val.averageRating, ratings, StoredFor(m))
         /\ ret.val.averageRating = getMovieRating(m).averageScore
         /\ ret.val.totalRatings = getMovieRating(m).totalRatings

\* statistics were asked for a movie that two users rated 4 and 8
C10_Witness ==
  /\ ret.op = "getMovieStatistics" /\ ret.err = ""
  /\ ret.val.totalRatings = 2
  /\ ret.val.averageRating = [num |-> 6, den |-> 1]

\* C11: getMovieStatistics leaves the rating store, the user store and the
\* current user as they are, and a call that directly follows a call for the
\* same movie returns the same result.
C11_StatisticsNoSideEffects ==
  [][\A m \in Movies :
       GetMovieStatistics(m) =>
          /\ UNCHANGED <<users, currentUser, ratings>>
          /\ (ret.op = "getMovieStatistics" /\ ret.err = "" /\ ret.val.movieId = m)
                => ret' = ret]_vars

\* statistics were returned for a movie whose two ratings are stored oldest
\* first, the opposite of the order in which they are aggregated
C11_Witness ==
  /\ ret.op = "getMovieStatistics" /\ ret.err = ""
  /\ ret.val.totalRatings = 2
  /\ Len(ratings) = 2 /\ ratings[1].createdAt < ratings[2].createdAt

\* the stored ratings of movie m, each with the attributes its author has now
JoinedNow(m) ==
  LET rs == filterByMovie(ratings, m)
  IN  [i \in 1..Len(rs) |->
         LET author == users[CHOOSE j \in 1..Len(users) : users[j].id = rs[i].userId]
         IN  [score |-> rs[i].score,
              user |-> StatUser(author.age, author.gender, author.country,
                                author.continent)]]

\* C12: whatever rateMovie, deleteRating and updateUser calls came before,
\* getMovieStatistics returns the aggregation of the ratings stored for the
\* movie when it is called, each with the age, gender, country and continent
\* its author has when it is called.
C12_StatisticsFromCurrentState ==
  [][\A m \in Movies :
       GetMovieStatistics(m) =>
          /\ ret'.err = ""
          /\ ret'.val.totalRatings = Len(JoinedNow(m))
          /\ ret'.val.ageStatistics = calculateAgeStatistics(JoinedNow(m))
          /\ ret'.val.genderStatistics = calculateGenderStatistics(JoinedNow(m))
          /\ ret'.val.continentStatistics = calculateContinentStatistics(JoinedNow(m))
          /\ ret'.val.countryStatistics = calculateCountryStatistics(JoinedNow(m))]_vars

\* statistics returned after the author of a rating moved from France to
\* Japan: the rating is counted under Japan and asia
C12_Witness ==
  /\ ret.op = "getMovieStatistics" /\ ret.err = ""
  /\ ret.val.totalRatings = 2
  /\ DOMAIN ret.val.countryStatistics = {"Japan", "usa"}
  /\ ret.val.continentStatistics.asia /= Zero
  /\ ret.val.continentStatistics.europe = Zero

\* C13: in every state reached through register, login, logout, updateUser,
\* rateMovie and deleteRating the author of every stored rating is a stored
\* user, so getMovieStatistics returns a result for every movie and never
\* throws.
C13_StatisticsTotal ==
  /\ \A i \in 1..Len(ratings) : \E j \in 1..Len(users) : users[j].id = ratings[i].userId
  /\ ret.op = "getMovieStatistics" => (ret.err = "" /\ ret.val /= None)

\* statistics returned for a movie nobody rated, while another movie's
\* rating belongs to a user who has logged out and changed profile
C13_Witness ==
  /\ ret.op = "getMovieStatistics" /\ ret.err = ""
  /\ ret.val.totalRatings = 0
  /\ Len(ratings) = 1
  /\ currentUser = None
  /\ \E j \in 1..Len(users) : users[j].id = ratings[1].userId /\ users[j].age = Some(30)

\* a token is stored in cookie state c
TokenStored(c) == c /= None /\ Val(c) /= ""

\* C14: every request handed to fetch by get, post, put, delete and
\* postFormUrlEncoded carries 'Authorization: Bearer <token>' when a token
\* is stored at that moment, the token being the one set last, and carries no
\* Authorization header when none is stored.
C14_BearerIffTokenStored ==
  [][\A r \in inflight' \ inflight :
       r.cont = "caller" =>
         IF TokenStored(cookie)
         THEN r.headers.Authorization = Some(<<"Bearer ", Val(cookie)>>)
         ELSE r.headers.Authorization = None]_vars

\* a form-encoded request sent with a token is still in flight after the
\* token was cleared
C14_Witness ==
  /\ cookie = None
  /\ \E r \in inflight :
       /\ r.method = "POST" /\ r.headers.ContentType = "application/x-www-form-urlencoded"
       /\ r.headers.Authorization = Some(<<"Bearer ", "t2">>)

\* the outcome the code gives for a response
C15_Expected(resp) ==
  IF resp.status >= 200 /\ resp.status <= 299
  THEN IF resp.parses
       THEN [err |-> "", val |-> [isNull |-> resp.isNull, obj |-> resp.obj]]
       ELSE [err |-> JsonSyntaxError, val |-> None]
  ELSE IF ~resp.parses THEN [err |-> apiErrorMessage(resp.status), val |-> None]
  ELSE IF resp.isNull THEN [err |-> NullDetailError, val |-> None]
  ELSE IF "detail" \notin DOMAIN resp.obj
       THEN [err |-> apiErrorMessage(resp.status), val |-> None]
  ELSE IF resp.obj.detail = DetailString("")
       THEN [err |-> apiErrorMessage(resp.status), val |-> None]
  ELSE IF resp.obj.detail.type = "string"
       THEN [err |-> resp.obj.detail.text, val |-> None]
  ELSE [err |-> "[object Object]", val |-> None]

\* C15, as the code behaves: a 2xx response resolves with the parsed body
\* when the body parses and rejects with the parse error when it does not; a
\* non-2xx response always rejects, with the detail when it is a non-empty
\* string, with '[object Object]' when it is a list of one object, with
\* 'API error: <status>' when the body cannot be parsed, has no detail or has
\* an empty detail, and with a TypeError when the body is null.
C15_ResponseHandling ==
  "response" \in DOMAIN ret =>
     /\ ret.err = C15_Expected(ret.response).err
     /\ ret.val = C15_Expected(ret.response).val

\* a 422 response whose detail is a list was turned into '[object Object]'
C15_Witness ==
  /\ ret.op = "POST"
  /\ "response" \in DOMAIN ret
  /\ ret.response.status = 422
  /\ ret.err = "[object Object]"

\* the outcome the original statement gives for a response
C15_Stated(resp) ==
  IF resp.status >= 200 /\ resp.status <= 299
  THEN [err |-> "", val |-> [isNull |-> resp.isNull, obj |-> resp.obj]]
  ELSE IF resp.parses /\ ~resp.isNull /\ "detail" \in DOMAIN resp.obj
       THEN [err |-> detailMessage(resp.obj.detail), val |-> None]
       ELSE [err |-> apiErrorMessage(resp.status), val |-> None]

\* C15 as stated: the parsed body for every 2xx response; otherwise an Error
\* with the detail when the body has one and 'API error: <status>' when it
\* has none or cannot be parsed.
C15_AsStated ==
  "response" \in DOMAIN ret =>
     /\ ret.err = C15_Stated(ret.response).err
     /\ ret.val = C15_Stated(ret.response).val

\* the callbacks stored in a listener list
Registered(listeners) == {listeners[i] : i \in 1..Len(listeners)}

\* the callbacks called by the last step, and callback cb was called with u
CalledBack == {notified[k].callback : k \in 1..Len(notified)}
WasCalledWith(calls, cb, u) == \E k \in 1..Len(calls) : calls[k] = [callback |-> cb, user |-> u]

\* C16: addAuthStateListener calls the callback exactly once, at once, with
\* the current user (null when nobody is logged in), and when a login then
\* succeeds every registered callback is called with the fetched profile.
C16_ListenerCalledOnAddAndLogin ==
  [][/\ \A cb \in Callbacks :
          AddAuthStateListener(cb) =>
             notified' = <<[callback |-> cb, user |-> currentUserApi]>>
     /\ \A r \in inflight, resp \in ProfileResponses :
          (LoginProfileResponse(r, resp) /\ resp.status = 200) =>
             \A cb \in Registered(authStateListeners) :
                WasCalledWith(notified', cb, Some(resp.obj))]_vars

\* a login has succeeded while two callbacks were registered: both were
\* called with the profile
C16_Witness ==
  /\ ret.op = "login" /\ ret.err = ""
  /\ Registered(authStateListeners) = Callbacks
  /\ \A cb \in Callbacks : WasCalledWith(notified, cb, Some(ret.val))

\* the step is a logout, a successful login or the end of a session restore,
\* and it sets the current user to u
SetsCurrentUser(u) ==
  \/ LogoutApi /\ u = None
  \/ \E r \in inflight, resp \in ProfileResponses :
       /\ LoginProfileResponse(r, resp) /\ resp.status = 200 /\ u = Some(resp.obj)
  \/ \E r \in inflight, resp \in ProfileResponses :
       /\ SessionProfileResponse(r, resp)
       /\ u = IF resp.status = 200 THEN Some(resp.obj) ELSE None

\* C17: removeAuthStateListener(cb) leaves cb nowhere in the listener list;
\* a callback that is not in the list is called by no step other than its
\* own addAuthStateListener, and every login, logout and session restore
\* calls exactly the callbacks that are in the list.
C17_RemovedListenerNotCalled ==
  [][/\ \A cb \in Callbacks :
          RemoveAuthStateListener(cb) =>
             /\ cb \notin Registered(authStateListeners')
             /\ Registered(authStateListeners') = Registered(authStateListeners) \ {cb}
     /\ \A cb \in Callbacks :
          (cb \notin Registered(authStateListeners) /\ ~AddAuthStateListener(cb)) =>
             \A k \in 1..Len(notified') : notified'[k].callback /= cb
     /\ \A u \in {None} \cup {Some(p) : p \in Profiles} :
          SetsCurrentUser(u) =>
             /\ \A cb \in Registered(authStateListeners) : WasCalledWith(notified', cb, u)
             /\ \A k \in 1..Len(notified') :
                  notified'[k].callback \in Registered(authStateListeners)]_vars

\* a login has succeeded after which only cb2, the one callback still
\* registered, was called
C17_Witness ==
  /\ ret.op = "login" /\ ret.err = ""
  /\ authStateListeners = <<"cb2">>
  /\ notified = <<[callback |-> "cb2", user |-> Some(ret.val)]>>

\* C18: login posts the form with the e-mail as 'username' to /auth/login and
\* changes nothing else; when the token arrives it is stored and GET /users/me
\* is sent carrying it, the current user still unchanged; when the profile
\* arrives the current user becomes the profile and login resolves with it.
C18_LoginOrder ==
  [][/\ \A c \in LoginDtos :
          LoginRequest(c) =>
             /\ \E q \in inflight' \ inflight :
                  /\ q.method = "POST" /\ q.endpoint = "/auth/login"
                  /\ q.body = Some([encoding |-> "form",
                                    data |-> <<<<"username", c.email>>,
                                               <<"password", c.password>>>>])
             /\ UNCHANGED <<cookie, currentUserApi>>
     /\ \A r \in inflight, resp \in LoginResponses :
          (LoginTokenResponse(r, resp) /\ resp.status = 200) =>
             /\ cookie' = Some(resp.obj.access_token)
             /\ \E q \in inflight' \ inflight :
                  /\ q.method = "GET" /\ q.endpoint = "/users/me"
                  /\ q.headers.Authorization = Some(<<"Bearer ", resp.obj.access_token>>)
             /\ UNCHANGED currentUserApi
     /\ \A q \in inflight' \ inflight :
          q.cont = "loginProfile" =>
             \E r \in inflight, resp \in LoginResponses : LoginTokenResponse(r, resp)
     /\ \A r \in inflight, resp \in ProfileResponses :
          (LoginProfileResponse(r, resp) /\ resp.status = 200) =>
             /\ currentUserApi' = Some(resp.obj)
             /\ ret' = [op |-> "login", err |-> "", val |-> resp.obj]
             /\ UNCHANGED cookie]_vars

\* a login has resolved with the profile of bob after the token t2, which
\* replaced the token of the restored session, was stored
C18_Witness ==
  /\ ret.op = "login" /\ ret.err = ""
  /\ ret.val = [id |-> "u2", username |-> "bob"]
  /\ currentUserApi = Some(ret.val)
  /\ cookie = Some("t2")

\* C19: whatever the state logout is called in, after it the token is cleared,
\* the current user is null and every registered listener has been called
\* with null.
C19_LogoutClears ==
  [][LogoutApi =>
       /\ cookie' = None
       /\ currentUserApi' = None
       /\ \A cb \in Registered(authStateListeners) : WasCalledWith(notified', cb, None)]_vars

\* logout was called while a login was still waiting for the profile; both
\* listeners were called with null
C19_Witness ==
  /\ ret.op = "logout"
  /\ cookie = None /\ currentUserApi = None
  /\ \E r \in inflight : r.cont = "loginProfile"
  /\ Len(notified) = 2
  /\ \A cb \in Callbacks : WasCalledWith(notified, cb, None)

\* C20: updateUser sends PUT /users/me when id is the id of the current user;
\* for another id, or when nobody is logged in, it rejects with 'Can only
\* update the current user', sends nothing and leaves the current user as it
\* is.
C20_UpdateOnlyCurrentUser ==
  [][\A id \in ProfileIds, d \in ProfileUpdates :
       UpdateUserRequest(id, d) =>
          IF currentUserApi /= None /\ currentUserApi[1].id = id
          THEN \E q \in inflight' \ inflight :
                  q.method = "PUT" /\ q.endpoint = "/users/me"
          ELSE /\ ret' = [op |-> "updateUser",
                          err |-> "Can only update the current user", val |-> None]
               /\ UNCHANGED <<inflight, currentUserApi, cookie>>]_vars

\* updateUser was rejected for an id that is not the current user's, while
\* a user is logged in and nothing is in flight
C20_Witness ==
  /\ ret.op = "updateUser"
  /\ ret.err = "Can only update the current user"
  /\ currentUserApi /= None
  /\ inflight = {}

\* C21: with no user logged in, rateMovie fails with 'User must be logged in
\* to rate a movie' and deleteRating with 'User must be logged in to delete a
\* rating', and neither changes the rating store.
C21_LoggedOutRejected ==
  [][/\ \A m \in Movies, s \in Scores :
          (currentUser = None /\ RateMovie([movieId |-> m, score |-> s])) =>
             /\ ret'.err = "User must be logged in to rate a movie"
             /\ ratings' = ratings
     /\ \A m \in Movies :
          (currentUser = None /\ DeleteRating(m)) =>
             /\ ret'.err = "User must be logged in to delete a rating"
             /\ ratings' = ratings]_vars

\* deleteRating was refused after the author of the stored rating logged out
C21_Witness ==
  /\ currentUser = None
  /\ ret.op = "deleteRating"
  /\ ret.err = "User must be logged in to delete a rating"
  /\ Len(ratings) = 2

\* C30 as stated: no two stored users share a username or an e-mail.
C30_UniqueNamesAndEmails ==
  \A i, j \in 1..Len(users) :
     i /= j => (users[i].username /= users[j].username /\ users[i].email /= users[j].email)

\* C24: every change of the current user is delivered, by the step that makes
\* it, to every registered listener, so that between operations the last
\* value a listener received is getCurrentUser(), whichever of login, logout,
\* session restore or updateUser made the change.
C24_EveryChangeDelivered ==
  [][currentUserApi' /= currentUserApi =>
       \A cb \in Registered(authStateListeners) :
          WasCalledWith(notified', cb, currentUserApi')]_vars

\* the login whose request is r, about to reject, is the one that stored the
\* token now in the cookie
StoredItsToken(r) ==
  /\ r.cont = "loginProfile"
  /\ cookie /= None
  /\ r.headers.Authorization = Some(Bearer(Val(cookie)))

\* C28: a login that rejects, at the POST or at GET /users/me, leaves the
\* stored token as it was when login was called, leaves getCurrentUser() as
\* it is and notifies no listener.
C28_RejectedLoginChangesNothing ==
  [][/\ \A r \in inflight, resp \in LoginResponses :
          (LoginTokenResponse(r, resp) /\ IsRejected(handleResponse(resp))) =>
             /\ UNCHANGED <<cookie, currentUserApi>>
             /\ notified' = <<>>
     /\ \A r \in inflight, resp \in ProfileResponses :
          (LoginProfileResponse(r, resp) /\ IsRejected(handleResponse(resp))) =>
             /\ UNCHANGED currentUserApi
             /\ notified' = <<>>
             /\ StoredItsToken(r) => cookie' = r.before]_vars

\* C29: the session check started by the constructor never overrides a login
\* or a logout that completed after construction: when its answer arrives
\* after one, the token and the current user stay as that login or logout
\* left them.
C29_SessionCheckNeverOverrides ==
  [][\A r \in inflight, resp \in ProfileResponses :
       (/\ SessionProfileResponse(r, resp)
        /\ \/ ret.op = "logout"
           \/ ret.op = "login" /\ ret.err = "")
         => UNCHANGED <<cookie, currentUserApi>>]_vars

\* the step is handleSubmit of the CommentForm and it created a comment
SubmitCreated(m) == HandleSubmit(m) /\ Len(comments') = Len(comments) + 1

\* C22: in CommentForm the entered text is cleared and onCommentAdded is
\* called only when the comment was created; when the submission fails,
\* onCommentAdded is not called, the entered text is kept and the error
\* message is shown.
C22_SubmitOutcome ==
  [][\A m \in CommentMovies :
       HandleSubmit(m) =>
          IF SubmitCreated(m)
          THEN /\ ret'.onCommentAdded = 1
               /\ commentForm'.text = <<>>
          ELSE /\ ret'.onCommentAdded = 0
               /\ commentForm'.text = commentForm.text
               /\ ~CommentFormShows(commentForm').prompt
               /\ CommentFormShows(commentForm').error /= ""]_vars

\* C25: updateComment and deleteComment of the in-memory CommentService
\* change an existing comment only when the current user is its author or an
\* admin; called by another logged-in user, or with nobody logged in, they
\* throw and the comment list is unchanged.
C25_OnlyAuthorOrAdmin ==
  [][\A id \in CommentIds :
       LET mayModify ==
             /\ currentUser /= None
             /\ \E i \in 1..Len(comments) :
                  /\ comments[i].id = id
                  /\ \/ comments[i].userId = Val(currentUser).id
                     \/ Val(currentUser).isAdmin
           exists == \E i \in 1..Len(comments) : comments[i].id = id
       IN  /\ (DeleteComment(id) \/ \E d \in CommentUpdates : UpdateComment(id, d)) =>
                /\ comments' /= comments => mayModify
                /\ (exists /\ ~mayModify) => (ret'.err /= "" /\ comments' = comments)
                /\ (exists /\ mayModify) => ret'.err = ""
           /\ (DeleteComment(id) /\ exists /\ mayModify) =>
                \A i \in 1..Len(comments') : comments'[i].id /= id
           /\ \A d \in CommentUpdates :
                (UpdateComment(id, d) /\ exists /\ mayModify) =>
                   \E i \in 1..Len(comments') :
                      comments'[i].id = id /\ comments'[i].text = d.text]_vars

\* bob, logged in, was refused the update of ann's comment, which is still
\* stored as she wrote it
C25_Witness ==
  /\ ret.op = "updateComment" /\ ret.err = "You can only update your own comments"
  /\ currentUser /= None /\ Val(currentUser).username = "bob"
  /\ Len(comments) = 1
  /\ comments[1].userId /= Val(currentUser).id
  /\ comments[1].text = <<"h", "i">>

\* the user the last render of the CommentItem read is logged in and is the
\* author of its comment or an admin
ViewerIsAuthorOrAdmin ==
  LET u == commentItem.currentUser
  IN  /\ u /= None
      /\ \/ Val(u).id = commentItem.comment.user_id
         \/ Val(u).isAdmin = TRUE

C26_LatestMovieShown ==
  statisticsPanel.requests = {} =>
     LET shown == StatisticsPanelShows(statisticsPanel)
     IN  \/ shown.text = "No statistics available for this movie."
         \/ /\ shown.statistics /= None
            /\ Val(shown.statistics).movie_id = statisticsPanel.movieId

\* the timer was set by the latest submission, whose success message is
\* still on screen
TimerOfShownSuccess(timer) ==
  /\ timer.id = ratingForm.submissions
  /\ ratingForm.calls = {}
  /\ ratingForm.messageType = "success"

\* C27: the success message of a submission is cleared by the 3-second timer
\* that submission set, provided no other submission was made in between:
\* when that timer fires, the message is gone.
C27_SuccessMessageCleared ==
  [][\A timer \in ratingForm.timers :
       (TimerFires(timer) /\ TimerOfShownSuccess(timer)) =>
          /\ ratingForm'.message = ""
          /\ ratingForm'.messageType = ""]_vars

====
